---- MODULE Spec2Model ----
(***************************************************************************)
(* State-machine model of the NYC property lookup back end:                *)
(*   - the lookup endpoints (app/api/v1/endpoints/properties.py),          *)
(*   - SpatialService (app/services/spatial.py),                           *)
(*   - GeocodingService (app/services/geocoding.py),                       *)
(*   - the relationship builder script                                     *)
(*     (app/data/scripts/create_property_zoning_relationships.py),         *)
(*   - the three importers (app/data/importers).                           *)
(*                                                                         *)
(* The PostGIS store is the environment: its tables are state variables,   *)
(* its row order is the order of the table sequences, and its geography    *)
(* distance is the table lmDist.  Floating-point numbers are modelled as   *)
(* a reduced-width binary format (SignificandBits bits of significand,     *)
(* round to nearest even) whose values are integers counting units of      *)
(* 2^-FracBits.                                                            *)
(***************************************************************************)
EXTENDS Integers, Sequences, FiniteSets, TLC

VARIABLES
    properties,   \* Property table: sequence of parcel ids in store row order
    districts,    \* ZoningDistrict table: sequence of district ids in row order
    pz,           \* PropertyZoning table: set of committed rows [pid, zid, is_primary]
    landmarks,    \* Landmark table: sequence of landmark ids in row order
    lmDist,       \* ST_Distance(geography) in meters: lmDist[l][p], a float
    settings,     \* app.config.settings: [provider, api_key]
    pc,           \* position of the request: "idle" (not yet received), "geocoding", "done"
    rq,           \* the request's parameters (address, bbl, lat, lon) and fault
    resp,         \* the HTTP response of the request
    trace,        \* store queries issued by the request, in order
    geo,          \* GeocodingService.geocode call record of the request
    nearby,       \* record of the last direct find_nearby_landmarks call
    bpc,          \* relationship builder position: "idle", "running", "done"
    bprops,       \* the builder's `properties` list (query snapshot)
    bidx,         \* index of the next property the builder processes
    created,      \* builder counter `created`
    skipped,      \* builder counter `skipped`
    blast,        \* what the last builder step did
    runs,         \* number of builder runs started
    prevPz,       \* PropertyZoning table at the end of the previous builder run
    startPz,      \* PropertyZoning table when the current builder run began
    ipc,          \* import_file position: "idle", "running", "done", "aborted"
    imp,          \* arguments of the import_file call [kind, file, batch_size, ...]
    ipos,         \* index of the next record of the file
    stats,        \* the `stats` dictionary of the call
    ipending,     \* records added to or changed in the session, not yet committed
    iruns,        \* number of import_file calls started
    iprev,        \* how the previous import_file call ended
    fields,       \* which record last wrote the mapped fields of an imported row
    conv,         \* record of a feet -> meters -> feet conversion
    norm,         \* record of a normalize_address call
    extract,      \* record of a MapPLUTO row and the Property built from it
    parked,       \* the requests that are not running: their pc, rq, resp, trace, geo
    cur           \* the request that is running

vars == <<properties, districts, pz, landmarks, lmDist, settings, pc, rq, resp,
          trace, geo, nearby, bpc, bprops, bidx, created, skipped, blast, runs,
          prevPz, startPz, ipc, imp, ipos, stats, ipending, iruns, iprev, fields, conv,
          norm, extract, parked, cur>>

storeVars   == <<properties, districts, pz, landmarks, lmDist>>
lookupVars  == <<pc, rq, resp, trace, geo>>
builderVars == <<bpc, bprops, bidx, created, skipped, blast, runs, prevPz,
                 startPz>>
importVars  == <<ipc, imp, ipos, stats, ipending, iruns, iprev, fields>>
pureVars    == <<conv, norm, extract>>
otherVars   == <<parked, cur>>

(***************************************************************************)
(* Bounds of the model.                                                    *)
(***************************************************************************)
MaxProps == 2          \* parcels that may be stored
MaxDistricts == 2      \* zoning districts that may be stored
MaxLandmarks == 2      \* landmarks that may be stored
MaxRuns == 2           \* relationship builder runs
SignificandBits == 8   \* significand width of the modelled float format
FracBits == 10         \* floats count units of 2^-FracBits
MaxFeet == 32          \* largest threshold / distance drawn for direct calls
MaxPzRows == 3         \* PropertyZoning rows in a drawn table
MaxFile == 2           \* records in an input file of an importer

ParcelIds   == 1..MaxProps
DistrictIds == 1..MaxDistricts
LandmarkIds == 1..MaxLandmarks

(***************************************************************************)
(* Floating point: a value is the integer n standing for n * 2^-FracBits.  *)
(***************************************************************************)
RECURSIVE Bits(_)
Bits(q) == IF q = 0 THEN 0 ELSE 1 + Bits(q \div 2)

\* a / b (both in units, a >= 0, b > 0) rounded to the nearest float, ties to even
RoundRatio(a, b) ==
    LET q   == a \div b
        nb  == Bits(q)
        ulp == IF nb <= SignificandBits THEN 1 ELSE 2^(nb - SignificandBits)
        d   == b * ulp
        f   == a \div d
        r   == a % d
        up  == (2 * r > d) \/ (2 * r = d /\ f % 2 = 1)
    IN  (IF up THEN f + 1 ELSE f) * ulp

One == 2^FracBits
Representable(n) == RoundRatio(n, 1) = n

\* the literal 0.3048 as the float nearest to it
FT_TO_M == RoundRatio(3048 * One, 10000)

FloatMul(x, y) == RoundRatio(x * y, One)
FloatDiv(x, y) == RoundRatio(x * One, y)

feet_to_meters(feet) == FloatMul(feet, FT_TO_M)

\* variant: converts back with the factor of the forward direction
meters_to_feet_multiplies(meters) == FloatMul(meters, FT_TO_M)

meters_to_feet(meters) == FloatDiv(meters, FT_TO_M)

\* distance from n to the next float above it
Ulp(n) == IF Bits(n) <= SignificandBits THEN 1 ELSE 2^(Bits(n) - SignificandBits)

\* n is at or above the smallest float with a full significand
Normal(n) == Bits(n) >= SignificandBits

Abs(n) == IF n < 0 THEN -n ELSE n

\* Python round(x, 2): the result in hundredths, ties to even
Round2(x) == RoundRatio(x * 100, One)

Feet(k) == k * One
DEFAULT_DISTANCE_FEET == Feet(150)

(***************************************************************************)
(* Optional values (None or a value).                                      *)
(***************************************************************************)
None(dflt) == [some |-> FALSE, v |-> dflt]
Some(x) == [some |-> TRUE, v |-> x]

NoneStr == None("")
NoneAddr == None(<<>>)
NoneNum == None(0)

\* Python truthiness of an Optional[str]: neither None nor empty
TruthyStr(o) == o.some /\ o.v # ""
TruthyAddr(o) == o.some /\ Len(o.v) > 0

(***************************************************************************)
(* Geometry: axis-parallel rectangles and points on an integer grid,       *)
(* x = longitude, y = latitude.                                            *)
(***************************************************************************)
Rect(x1, x2, y1, y2) == [x1 |-> x1, x2 |-> x2, y1 |-> y1, y2 |-> y2]

\* POINT(lon lat)
create_point(latitude, longitude) == [x |-> longitude, y |-> latitude]

\* PostGIS ST_Contains(polygon, point): the point lies in the interior
ST_Contains(g, pt) ==
    /\ g.x1 < pt.x /\ pt.x < g.x2
    /\ g.y1 < pt.y /\ pt.y < g.y2

\* PostGIS ST_Intersects: the closed rectangles share a point
ST_Intersects(a, b) ==
    /\ a.x1 <= b.x2 /\ b.x1 <= a.x2
    /\ a.y1 <= b.y2 /\ b.y1 <= a.y2

(***************************************************************************)
(* The rows that may be stored.  A row is identified by its id; the        *)
(* catalogue gives the column values of each id.                           *)
(***************************************************************************)
ParcelBbl(p) ==
    CASE p = 1 -> "1000120001"
      [] p = 2 -> "1000120002"
      [] p = 3 -> "1000120003"
      [] OTHER -> "2000010001"

\* Property.address: a string (sequence of characters) or NULL
ParcelAddress(p) ==
    CASE p = 1 -> Some(<<"A", "b">>)
      [] p = 2 -> Some(<<"b", "c">>)
      [] OTHER -> NoneAddr

\* parcels 1 and 2 overlap (dirty data), the others lie apart
ParcelGeom(p) ==
    CASE p = 1 -> Rect(0, 4, 0, 2)
      [] p = 2 -> Rect(2, 6, 0, 2)
      [] OTHER -> Rect(10 * p, 10 * p + 2, 0, 2)

ZoningCode(z) ==
    CASE z = 1 -> "R7-2"
      [] z = 2 -> "C6-2"
      [] z = 3 -> "M1-5"
      [] OTHER -> "PARK"

ZoningTypeOf(z) ==
    CASE z = 1 -> "Residential"
      [] z = 2 -> "Commercial"
      [] z = 3 -> "Manufacturing"
      [] OTHER -> "Mixed"

\* district 1 meets parcels 1 and 2, district 2 meets parcel 2 only,
\* district 3 touches parcel 2 on its boundary
ZoningGeom(z) ==
    CASE z = 1 -> Rect(0, 3, 0, 4)
      [] z = 2 -> Rect(5, 8, 0, 4)
      [] z = 3 -> Rect(6, 9, 2, 5)
      [] OTHER -> Rect(100, 102, 0, 2)

LandmarkName(l) ==
    CASE l = 1 -> "Central Park Historic District"
      [] l = 2 -> "Sample Individual Landmark"
      [] OTHER -> "Nearby Landmark"

LandmarkTypeOf(l) ==
    CASE l = 1 -> "Historic District"
      [] l = 2 -> "Individual"
      [] OTHER -> "Scenic"

(***************************************************************************)
(* Sequences.                                                              *)
(***************************************************************************)
Range(s) == {s[i] : i \in DOMAIN s}
IsInjective(s) == \A i, j \in DOMAIN s : s[i] = s[j] => i = j

\* all duplicate-free sequences over S (the possible row orders of a table)
Tables(S) ==
    UNION {{s \in [1..n -> S] : IsInjective(s)} : n \in 0..Cardinality(S)}

\* all enumerations of the finite set S
Orderings(S) == {s \in [1..Cardinality(S) -> S] : Range(s) = S}

\* Query.first(): the first row of the result, 0 standing for None
First(s) == IF Len(s) = 0 THEN 0 ELSE s[1]

(***************************************************************************)
(* SQL ILIKE.                                                              *)
(***************************************************************************)
Lower(c) ==
    CASE c = "A" -> "a"
      [] c = "B" -> "b"
      [] c = "C" -> "c"
      [] c = "N" -> "n"
      [] c = "Y" -> "y"
      [] OTHER -> c

\* LIKE: "%" matches any string, "_" any one character
RECURSIVE LikeMatch(_, _)
LikeMatch(pat, s) ==
    IF Len(pat) = 0 THEN Len(s) = 0
    ELSE IF Head(pat) = "%"
         THEN \/ LikeMatch(Tail(pat), s)
              \/ (Len(s) > 0 /\ LikeMatch(pat, Tail(s)))
    ELSE /\ Len(s) > 0
         /\ (Head(pat) = "_" \/ Lower(Head(pat)) = Lower(Head(s)))
         /\ LikeMatch(Tail(pat), Tail(s))

\* column.ilike(pattern); NULL columns never match
ILike(col, pat) == col.some /\ LikeMatch(pat, col.v)

(***************************************************************************)
(* JSON documents and the Python operations the geocoder applies to them.  *)
(* An operation yields [exc, val]: exc = "" on success, else the name of   *)
(* the exception it raises.                                                *)
(***************************************************************************)
JNull == [t |-> "null"]
JNum(n) == [t |-> "num", v |-> n]
\* a string; parses tells whether float() accepts it, v is the value then
JStr(s, parses, n) == [t |-> "str", s |-> s, parses |-> parses, v |-> n]
JArr(a) == [t |-> "arr", a |-> a]
JObj(f) == [t |-> "obj", f |-> f]
\* a body that is not JSON at all
NotJson == [t |-> "invalid"]

Ok(v) == [exc |-> "", val |-> v]
Raise(e) == [exc |-> e, val |-> JNull]

\* d.get(k, dflt)
PyGet(d, k, dflt) ==
    IF d.t = "obj"
    THEN Ok(IF k \in DOMAIN d.f THEN d.f[k] ELSE dflt)
    ELSE Raise("AttributeError")

\* bool(v)
PyTruthy(v) ==
    CASE v.t = "null" -> FALSE
      [] v.t = "num"  -> v.v # 0
      [] v.t = "str"  -> v.s # ""
      [] v.t = "arr"  -> Len(v.a) > 0
      [] v.t = "obj"  -> DOMAIN v.f # {}
      [] OTHER -> FALSE

\* v[0]
PyIndex0(v) ==
    CASE v.t = "arr" -> IF Len(v.a) > 0 THEN Ok(v.a[1]) ELSE Raise("IndexError")
      [] v.t = "str" -> IF v.s # "" THEN Ok(JStr("?", FALSE, 0)) ELSE Raise("IndexError")
      [] v.t = "obj" -> Raise("KeyError")
      [] OTHER -> Raise("TypeError")

\* v[k] for a string key k
PyItem(v, k) ==
    CASE v.t = "obj" -> IF k \in DOMAIN v.f THEN Ok(v.f[k]) ELSE Raise("KeyError")
      [] OTHER -> Raise("TypeError")

\* float(v)
PyFloat(v) ==
    CASE v.t = "num" -> Ok(v)
      [] v.t = "str" -> IF v.parses THEN Ok(JNum(v.v)) ELSE Raise("ValueError")
      [] OTHER -> Raise("TypeError")

IsStr(v, s) == v.t = "str" /\ v.s = s

(***************************************************************************)
(* GeocodingService.                                                       *)
(***************************************************************************)
\* outcome of geocode: exc = "" and (lat, lon), or the exception raised
Coords(lat, lon) == [exc |-> "", lat |-> lat, lon |-> lon]
Raises(e) == [exc |-> e, lat |-> 0, lon |-> 0]

\* httpx.HTTPError covers status, connection and timeout errors
Transports == {"ok", "status_error", "connect_error", "timeout"}

\* the except clauses of _geocode_nyc / _geocode_google
CatchGeocode(e) ==
    IF e \in {"HTTPError", "KeyError", "ValueError", "IndexError"}
    THEN "GeocodingError"
    ELSE e

\* the try block of _geocode_nyc once client.get has returned or raised
NycTry(transport, body) ==
    IF transport # "ok" THEN Raises("HTTPError")
    ELSE IF body.t = "invalid" THEN Raises("ValueError")
    ELSE LET result == PyGet(body, "result", JObj(<<>>)) IN
    IF result.exc # "" THEN Raises(result.exc)
    ELSE LET matches == PyGet(result.val, "addressMatches", JNull) IN
    IF matches.exc # "" THEN Raises(matches.exc)
    ELSE IF ~PyTruthy(matches.val) THEN Raises("GeocodingError")
    ELSE LET match == PyIndex0(matches.val) IN
    IF match.exc # "" THEN Raises(match.exc)
    ELSE LET coordinates == PyItem(match.val, "coordinates") IN
    IF coordinates.exc # "" THEN Raises(coordinates.exc)
    ELSE LET y == PyItem(coordinates.val, "y") IN
    IF y.exc # "" THEN Raises(y.exc)
    ELSE LET fy == PyFloat(y.val) IN
    IF fy.exc # "" THEN Raises(fy.exc)
    ELSE LET x == PyItem(coordinates.val, "x") IN
    IF x.exc # "" THEN Raises(x.exc)
    ELSE LET fx == PyFloat(x.val) IN
    IF fx.exc # "" THEN Raises(fx.exc)
    ELSE Coords(fy.val.v, fx.val.v)

_geocode_nyc(transport, body) ==
    LET r == NycTry(transport, body)
    IN  IF r.exc = "" THEN r ELSE Raises(CatchGeocode(r.exc))

\* the try block of _geocode_google (the API key is configured)
GoogleTry(transport, body) ==
    IF transport # "ok" THEN Raises("HTTPError")
    ELSE IF body.t = "invalid" THEN Raises("ValueError")
    ELSE LET status == PyGet(body, "status", JNull) IN
    IF status.exc # "" THEN Raises(status.exc)
    ELSE IF ~IsStr(status.val, "OK") THEN Raises("GeocodingError")
    ELSE LET results == PyGet(body, "results", JNull) IN
    IF ~PyTruthy(results.val) THEN Raises("GeocodingError")
    ELSE LET first == PyIndex0(results.val) IN
    IF first.exc # "" THEN Raises(first.exc)
    ELSE LET geometry == PyItem(first.val, "geometry") IN
    IF geometry.exc # "" THEN Raises(geometry.exc)
    ELSE LET location == PyItem(geometry.val, "location") IN
    IF location.exc # "" THEN Raises(location.exc)
    ELSE LET lat == PyItem(location.val, "lat") IN
    IF lat.exc # "" THEN Raises(lat.exc)
    ELSE LET flat == PyFloat(lat.val) IN
    IF flat.exc # "" THEN Raises(flat.exc)
    ELSE LET lng == PyItem(location.val, "lng") IN
    IF lng.exc # "" THEN Raises(lng.exc)
    ELSE LET flng == PyFloat(lng.val) IN
    IF flng.exc # "" THEN Raises(flng.exc)
    ELSE Coords(flat.val.v, flng.val.v)

_geocode_google(transport, body) ==
    LET r == GoogleTry(transport, body)
    IN  IF r.exc = "" THEN r ELSE Raises(CatchGeocode(r.exc))

\* str.lower() of the configured provider name
LowerName(name) ==
    CASE name = "NYC" -> "nyc"
      [] name = "Google" -> "google"
      [] OTHER -> name

\* GeocodingService.__init__
GeocodingService == [provider |-> LowerName(settings.provider),
                     api_key |-> settings.api_key]

\* what geocode does before its first await: "await" when it suspends in
\* client.get, else the exception it raises at once
GeocodeBegin(svc) ==
    IF svc.provider = "nyc" THEN "await"
    ELSE IF svc.provider = "google"
         THEN (IF svc.api_key = "" THEN "GeocodingError" ELSE "await")
    ELSE "GeocodingError"

\* geocode after client.get has returned or raised
GeocodeResume(svc, transport, body) ==
    IF svc.provider = "nyc"
    THEN _geocode_nyc(transport, body)
    ELSE _geocode_google(transport, body)

\* provider response bodies (HTTP 200) drawn by the model
NycMatch(y, x) ==
    JObj("result" :> JObj("addressMatches" :>
        JArr(<<JObj("coordinates" :> JObj("x" :> x @@ "y" :> y))>>)))

NycBodies == <<
    NycMatch(JNum(1), JNum(1)),                       \* a match inside parcel 1
    NycMatch(JNum(1), JNum(50)),                      \* a match outside every parcel
    NycMatch(JStr("1", TRUE, 1), JStr("3", TRUE, 3)), \* coordinates sent as strings
    JObj("result" :> JObj("addressMatches" :> JArr(<<>>))),   \* no match
    JObj(<<>>),                                       \* no "result" member
    NotJson,                                          \* not JSON
    JObj("result" :> JObj("addressMatches" :> JArr(<<JObj(<<>>)>>))),
    NycMatch(JStr("n/a", FALSE, 0), JNum(1)),         \* y does not parse
    JObj("result" :> JNull),                          \* "result": null
    JArr(<<>>),                                       \* the document is a list
    JObj("result" :> JObj("addressMatches" :> JArr(<<JObj("coordinates" :> JNull)>>))),
    NycMatch(JNum(1), JNull),                         \* "x": null
    JObj("result" :> JObj("addressMatches" :> JStr("none", FALSE, 0)))
>>

GoogleMatch(lat, lng) ==
    JObj("status" :> JStr("OK", FALSE, 0) @@ "results" :>
        JArr(<<JObj("geometry" :> JObj("location" :>
            JObj("lat" :> lat @@ "lng" :> lng)))>>))

GoogleBodies == <<
    GoogleMatch(JNum(1), JNum(1)),
    GoogleMatch(JNum(1), JNum(50)),
    JObj("status" :> JStr("ZERO_RESULTS", FALSE, 0) @@ "results" :> JArr(<<>>)),
    JObj("status" :> JStr("REQUEST_DENIED", FALSE, 0) @@
         "error_message" :> JStr("denied", FALSE, 0)),
    JObj("status" :> JStr("OK", FALSE, 0) @@ "results" :> JArr(<<>>)),
    JObj("status" :> JStr("OK", FALSE, 0)),
    NotJson,
    JObj("status" :> JStr("OK", FALSE, 0) @@ "results" :> JArr(<<JObj(<<>>)>>)),
    JArr(<<>>),                                       \* the document is a list
    JNull,                                            \* the document is null
    JObj("status" :> JStr("OK", FALSE, 0) @@ "results" :>
        JArr(<<JObj("geometry" :> JNull)>>)),
    GoogleMatch(JNull, JNum(1))                       \* "lat": null
>>

BodiesOf(svc) == IF svc.provider = "nyc" THEN NycBodies ELSE GoogleBodies

\* the whitespace characters of str.split()
IsSpace(c) == c \in {" ", "\t"}

\* normalize_address
RECURSIVE Squeeze(_, _)
Squeeze(s, afterSpace) ==
    IF Len(s) = 0 THEN <<>>
    ELSE IF IsSpace(Head(s))
         THEN (IF afterSpace THEN Squeeze(Tail(s), TRUE)
               ELSE <<" ">> \o Squeeze(Tail(s), TRUE))
    ELSE <<Head(s)>> \o Squeeze(Tail(s), FALSE)

\* " ".join(address.split())
JoinSplit(s) ==
    LET r == Squeeze(s, TRUE)
    IN  IF Len(r) > 0 /\ r[Len(r)] = " " THEN SubSeq(r, 1, Len(r) - 1) ELSE r

LowerStr(s) == [i \in 1..Len(s) |-> Lower(s[i])]

\* sub in s
Contains(s, sub) ==
    \E i \in 1..(Len(s) + 1) :
        /\ i + Len(sub) - 1 <= Len(s)
        /\ SubSeq(s, i, i + Len(sub) - 1) = sub

NY_SUFFIX == <<",", " ", "N", "e", "w", " ", "Y", "o", "r", "k", ",", " ", "N", "Y">>

\* variant: looks for the two names without lowering the address
normalize_address_case_sensitive(address) ==
    LET a == JoinSplit(address)
    IN  IF /\ ~Contains(a, <<"n", "e", "w", " ", "y", "o", "r", "k">>)
           /\ ~Contains(a, <<"n", "y">>)
        THEN a \o NY_SUFFIX
        ELSE a

normalize_address(address) ==
    LET a == JoinSplit(address)
    IN  IF /\ ~Contains(LowerStr(a), <<"n", "e", "w", " ", "y", "o", "r", "k">>)
           /\ ~Contains(LowerStr(a), <<"n", "y">>)
        THEN a \o NY_SUFFIX
        ELSE a

(***************************************************************************)
(* SpatialService.  A method that returns one row returns its id, 0 for    *)
(* None.  The geometry of a parcel is passed as the parcel's id where the  *)
(* store's distance table is consulted.                                    *)
(***************************************************************************)
\* a plausible slip: the filter is dropped
find_property_by_bbl_any(bbl) == First(properties)

find_property_by_bbl(bbl) ==
    LET Match(p) == ParcelBbl(p) = bbl
    IN  First(SelectSeq(properties, Match))

find_property_by_address(address) ==
    LET Match(p) == ILike(ParcelAddress(p), <<"%">> \o address \o <<"%">>)
    IN  First(SelectSeq(properties, Match))

find_property_by_coordinates(latitude, longitude) ==
    LET point == create_point(latitude, longitude)
        Match(p) == ST_Contains(ParcelGeom(p), point)
    IN  First(SelectSeq(properties, Match))

\* a plausible slip: the threshold itself is excluded
find_nearby_landmarks_strict(p, distance_feet) ==
    LET threshold == FloatMul(distance_feet, FT_TO_M)
        Within(l) == lmDist[l][p] < threshold
        rows == SelectSeq(landmarks, Within)
    IN  [i \in 1..Len(rows) |->
            [landmark |-> rows[i],
             distance_ft |-> FloatDiv(lmDist[rows[i]][p], FT_TO_M)]]

\* the list of (landmark, distance_ft) pairs, in the store's row order
find_nearby_landmarks(p, distance_feet) ==
    LET threshold == FloatMul(distance_feet, FT_TO_M)
        Within(l) == lmDist[l][p] <= threshold
        rows == SelectSeq(landmarks, Within)
    IN  [i \in 1..Len(rows) |->
            [landmark |-> rows[i],
             distance_ft |-> FloatDiv(lmDist[rows[i]][p], FT_TO_M)]]

\* a plausible slip: the first district of the live query is marked primary
get_zoning_districts_first_primary(geometry) ==
    LET Meets(z) == ST_Intersects(ZoningGeom(z), geometry)
        rows == SelectSeq(districts, Meets)
    IN  [i \in 1..Len(rows) |-> [zd |-> rows[i], is_primary |-> (i = 1)]]

\* the list of (district, is_primary) pairs of the live intersection query
get_zoning_districts(geometry) ==
    LET Meets(z) == ST_Intersects(ZoningGeom(z), geometry)
        rows == SelectSeq(districts, Meets)
    IN  [i \in 1..Len(rows) |-> [zd |-> rows[i], is_primary |-> FALSE]]

PzRows(table, p) == {r \in table : r.pid = p}

\* a plausible slip: the persisted flag is not carried over
get_property_zoning_districts_no_flag(p) ==
    {[i \in 1..Len(o) |-> [zd |-> o[i].zid, is_primary |-> FALSE]] :
        o \in Orderings(PzRows(pz, p))}

\* the lists get_property_zoning_districts may return: the persisted rows of
\* the property in any order the store returns them
get_property_zoning_districts(p) ==
    {[i \in 1..Len(o) |-> [zd |-> o[i].zid, is_primary |-> o[i].is_primary]] :
        o \in Orderings(PzRows(pz, p))}

(***************************************************************************)
(* The lookup endpoints.                                                   *)
(***************************************************************************)
NoResp == [status |-> 0, kind |-> "none", property |-> 0, error |-> "",
           zoning_districts |-> <<>>, nearby_landmarks |-> <<>>]

\* HTTPException(status_code, detail)
HTTPException(status, kind) == [NoResp EXCEPT !.status = status, !.kind = kind]

\* a plausible slip: not-found answered as an error status
NotFoundAs404 == HTTPException(404, "not_found")

\* PropertyLookupResponse(property=None, error="Property not found")
NotFoundResponse ==
    [NoResp EXCEPT !.status = 200, !.kind = "not_found",
                   !.error = "Property not found"]

ZoningDistrictInfo(zd, is_primary) ==
    [code |-> ZoningCode(zd), type |-> ZoningTypeOf(zd), is_primary |-> is_primary]

NearbyLandmarkInfo(lm, distance_ft) ==
    [name |-> LandmarkName(lm), landmark_type |-> LandmarkTypeOf(lm),
     distance_feet |-> Round2(distance_ft)]

\* the response built from a resolved property
PropertyResponse(p, zoning_districts, nearby_landmarks) ==
    [status |-> 200, kind |-> "found", property |-> p, error |-> "",
     zoning_districts |->
        [i \in 1..Len(zoning_districts) |->
            ZoningDistrictInfo(zoning_districts[i].zd, zoning_districts[i].is_primary)],
     nearby_landmarks |->
        [i \in 1..Len(nearby_landmarks) |->
            NearbyLandmarkInfo(nearby_landmarks[i].landmark,
                               nearby_landmarks[i].distance_ft)]]

NoGeo == [called |-> FALSE, address |-> <<>>, state |-> "none", exc |-> "",
          lat |-> 0, lon |-> 0, transport |-> "", body |-> 0]

\* store methods a fault may hit: the method named by rq.fault raises
Faults == {"", "find_property_by_bbl", "find_property_by_address",
           "find_property_by_coordinates", "get_property_zoning_districts"}

\* a plausible slip: the districts of the live-intersection fallback are
\* stored as relationships of the property
EnrichWrites_persists_fallback(p, fallback) ==
    IF fallback
    THEN {[pid |-> p, zid |-> e.zd, is_primary |-> e.is_primary] :
            e \in Range(get_zoning_districts(ParcelGeom(p)))}
    ELSE {}

\* the PropertyZoning rows the enrichment writes: the endpoints and the
\* SpatialService methods they call only query, and get_db closes the
\* session without a commit
EnrichWrites(p, fallback) == {}

\* lines 69-121 of lookup_property and 145-194 of get_property_by_bbl: the
\* enrichment of the resolved property p; q is the trace of queries so far
Enrich(p, q, fault) ==
    IF fault = "get_property_zoning_districts"
    THEN /\ resp' = HTTPException(500, "server")
         /\ trace' = Append(q, "get_property_zoning_districts")
         /\ pz' = pz
    ELSE \E persisted \in get_property_zoning_districts(p) :
            LET fallback == Len(persisted) = 0
                zoning_districts ==
                    IF fallback THEN get_zoning_districts(ParcelGeom(p))
                    ELSE persisted
                nearby_landmarks == find_nearby_landmarks(p, DEFAULT_DISTANCE_FEET)
            IN  /\ resp' = PropertyResponse(p, zoning_districts, nearby_landmarks)
                /\ pz' = pz \cup EnrichWrites(p, fallback)
                /\ trace' = q \o <<"get_property_zoning_districts">>
                              \o (IF fallback THEN <<"get_zoning_districts">> ELSE <<>>)
                              \o <<"find_nearby_landmarks">>

\* lines 63-126 of lookup_property once the resolution query `method` has
\* been issued and answers p (0 for None), unless the fault makes it raise
Resolved(method, p, q, fault) ==
    IF fault = method
    THEN /\ resp' = HTTPException(500, "server")
         /\ trace' = Append(q, method)
         /\ pz' = pz
    ELSE IF p = 0
    THEN /\ resp' = NotFoundResponse
         /\ trace' = Append(q, method)
         /\ pz' = pz
    ELSE Enrich(p, Append(q, method), fault)

\* detail="Property not found" of the direct endpoint's HTTPException
PROPERTY_NOT_FOUND ==
    <<"P", "r", "o", "p", "e", "r", "t", "y", " ", "n", "o", "t", " ",
      "f", "o", "u", "n", "d">>

\* the detail of an error response
Detail(r) ==
    IF r.status = 404 /\ r.kind = "not_found" THEN PROPERTY_NOT_FOUND ELSE <<>>

\* a plausible slip: the direct endpoint answers like the lookup endpoint
PropertyNotFound_as_200 == NotFoundResponse

\* raise HTTPException(status_code=404, detail="Property not found")
PropertyNotFound == HTTPException(404, "not_found")

\* a plausible slip: half a coordinate pair counts as an input
AnyInputEither(address, bbl, lat, lon) ==
    TruthyAddr(address) \/ TruthyStr(bbl) \/ (lat.some \/ lon.some)

\* any([address, bbl, (lat is not None and lon is not None)])
AnyInput(address, bbl, lat, lon) ==
    TruthyAddr(address) \/ TruthyStr(bbl) \/ (lat.some /\ lon.some)

\* GET /lookup up to its completion or to its suspension in the geocoder
LookupCall(address, bbl, lat, lon, fault) ==
    /\ pc = "idle"
    /\ rq' = [endpoint |-> "lookup", address |-> address, bbl |-> bbl,
              lat |-> lat, lon |-> lon, fault |-> fault]
    /\ IF ~AnyInput(address, bbl, lat, lon)
       THEN /\ resp' = HTTPException(400, "validation")
            /\ trace' = <<>>
            /\ geo' = NoGeo
            /\ pc' = "done"
            /\ pz' = pz
       ELSE IF TruthyStr(bbl)
       THEN /\ Resolved("find_property_by_bbl", find_property_by_bbl(bbl.v), <<>>, fault)
            /\ geo' = NoGeo
            /\ pc' = "done"
       ELSE IF TruthyAddr(address)
       THEN LET found == find_property_by_address(address.v)
                begin == GeocodeBegin(GeocodingService)
                call  == [NoGeo EXCEPT !.called = TRUE,
                                       !.address = normalize_address(address.v)]
            IN  IF fault = "find_property_by_address" \/ found # 0
                THEN /\ Resolved("find_property_by_address", found, <<>>, fault)
                     /\ geo' = NoGeo
                     /\ pc' = "done"
                ELSE IF begin = "await"
                THEN /\ geo' = [call EXCEPT !.state = "awaiting"]
                     /\ trace' = <<"find_property_by_address">>
                     /\ resp' = NoResp
                     /\ pc' = "geocoding"
                     /\ pz' = pz
                ELSE /\ geo' = [call EXCEPT !.state = "raised", !.exc = begin]
                     /\ trace' = <<"find_property_by_address">>
                     /\ resp' = HTTPException(400, "geocoding")
                     /\ pc' = "done"
                     /\ pz' = pz
       ELSE /\ Resolved("find_property_by_coordinates",
                        find_property_by_coordinates(lat.v, lon.v), <<>>, fault)
            /\ geo' = NoGeo
            /\ pc' = "done"
    /\ UNCHANGED <<properties, districts, landmarks, lmDist, settings, pureVars, otherVars, nearby,
                   builderVars, importVars>>

\* variant: lat and lon of the request win over the geocoder's answer
GeocodedLatLon_keeps_request(r, request) ==
    IF request.lat.some /\ request.lon.some
    THEN [lat |-> request.lat.v, lon |-> request.lon.v]
    ELSE [lat |-> r.lat, lon |-> r.lon]

\* lat, lon = await geocoding_service.geocode(normalized_address)
GeocodedLatLon(r, request) == [lat |-> r.lat, lon |-> r.lon]

\* GET /lookup from the return of client.get in the geocoder to the response
LookupResume(transport, body) ==
    /\ pc = "geocoding"
    /\ LET svc == GeocodingService
           r   == GeocodeResume(svc, transport,
                                IF transport = "ok" THEN BodiesOf(svc)[body] ELSE NotJson)
       IN  /\ geo' = [geo EXCEPT !.state = IF r.exc = "" THEN "returned" ELSE "raised",
                                 !.exc = r.exc, !.lat = r.lat, !.lon = r.lon,
                                 !.transport = transport,
                                 !.body = IF transport = "ok" THEN body ELSE 0]
           /\ IF r.exc = "GeocodingError"
              THEN /\ resp' = HTTPException(400, "geocoding")
                   /\ trace' = trace
                   /\ pz' = pz
              ELSE IF r.exc # ""
              THEN /\ resp' = HTTPException(500, "server")
                   /\ trace' = trace
                   /\ pz' = pz
              ELSE Resolved("find_property_by_coordinates",
                            find_property_by_coordinates(GeocodedLatLon(r, rq).lat,
                                                         GeocodedLatLon(r, rq).lon),
                            trace, rq.fault)
    /\ pc' = "done"
    /\ UNCHANGED <<properties, districts, landmarks, lmDist, settings, pureVars, otherVars, rq, nearby,
                   builderVars, importVars>>

\* GET /{bbl}
GetPropertyByBbl(bbl, fault) ==
    /\ pc = "idle"
    /\ rq' = [endpoint |-> "by_bbl", address |-> NoneAddr, bbl |-> Some(bbl),
              lat |-> NoneNum, lon |-> NoneNum, fault |-> fault]
    /\ LET p == find_property_by_bbl(bbl)
       IN  IF fault = "find_property_by_bbl"
           THEN /\ resp' = HTTPException(500, "server")
                /\ trace' = <<"find_property_by_bbl">>
                /\ pz' = pz
           ELSE IF p = 0
           THEN /\ resp' = PropertyNotFound
                /\ trace' = <<"find_property_by_bbl">>
                /\ pz' = pz
           ELSE Enrich(p, <<"find_property_by_bbl">>, fault)
    /\ geo' = NoGeo
    /\ pc' = "done"
    /\ UNCHANGED <<properties, districts, landmarks, lmDist, settings, pureVars, otherVars, nearby,
                   builderVars, importVars>>

(***************************************************************************)
(* Inputs and initial states.                                              *)
(***************************************************************************)
\* bbl parameters: absent, empty, the bbl of each parcel, a bbl of no parcel
BblInputs == {NoneStr, Some(""), Some("9999999999")}
                 \cup {Some(ParcelBbl(p)) : p \in ParcelIds}

\* address parameters: absent, empty, matching in another case, matching
\* two parcels, matching nothing, a LIKE wildcard
AddressInputs == {NoneAddr, Some(<<>>), Some(<<"a">>), Some(<<"B">>),
                  Some(<<"z", " ", " ", "q">>), Some(<<"_", "c">>)}

LatInputs == {NoneNum, Some(0), Some(1)}
LonInputs == {NoneNum, Some(3), Some(6)}

\* GEOCODING_PROVIDER and GEOCODING_API_KEY
Settings == {[provider |-> "nyc", api_key |-> ""],
             [provider |-> "NYC", api_key |-> ""],
             [provider |-> "Google", api_key |-> ""],
             [provider |-> "Google", api_key |-> "key"],
             [provider |-> "mapbox", api_key |-> ""]}

\* the rows written by generate_sample_data: each parcel has its first
\* district as primary
SamplePz == {[pid |-> 1, zid |-> 1, is_primary |-> TRUE]}

IdTable(n) == [i \in 1..n |-> i]

\* every landmark at the same distance d from every parcel
Equidistant(d) == [l \in LandmarkIds |-> [p \in ParcelIds |-> d[l]]]

LookupIdle ==
    /\ pc = "idle"
    /\ rq = [endpoint |-> "none", address |-> NoneAddr, bbl |-> NoneStr,
             lat |-> NoneNum, lon |-> NoneNum, fault |-> ""]
    /\ resp = NoResp
    /\ trace = <<>>
    /\ geo = NoGeo
    /\ nearby = [called |-> FALSE, geometry |-> 0, distance_feet |-> 0, result |-> <<>>]

BuilderIdle ==
    /\ bpc = "idle"
    /\ bprops = <<>>
    /\ bidx = 0
    /\ created = 0
    /\ skipped = 0
    /\ blast = [pid |-> 0, what |-> "none"]
    /\ runs = 0
    /\ prevPz = {}
    /\ startPz = {}

\* the `stats` dictionary of import_file for a file of n records
NoStats(n) == [total |-> n, inserted |-> 0, updated |-> 0, skipped |-> 0, errors |-> 0]

NoRun == [outcome |-> "none", stats |-> NoStats(0), count |-> 0,
          update_existing |-> FALSE, dry_run |-> FALSE]

ImportIdle ==
    /\ ipc = "idle"
    /\ imp = [kind |-> "none", file |-> <<>>, batch_size |-> 1,
              update_existing |-> FALSE, dry_run |-> FALSE]
    /\ ipos = 0
    /\ stats = NoStats(0)
    /\ ipending = <<>>
    /\ iruns = 0
    /\ iprev = NoRun
    /\ fields = {}

NoConv == [called |-> FALSE, x |-> 0, meters |-> 0, feet |-> 0]
NoNorm == [called |-> FALSE, address |-> <<>>, once |-> <<>>, twice |-> <<>>]
NoExtract == [called |-> FALSE, row |-> <<>>, stored |-> <<>>]

PureIdle ==
    /\ conv = NoConv
    /\ norm = NoNorm
    /\ extract = NoExtract

\* a single request: nothing is parked
OthersIdle ==
    /\ parked = <<>>
    /\ cur = 1

\* property resolution: any Property table, any geocoder configuration
Init ==
    /\ properties \in Tables(ParcelIds)
    /\ districts = IdTable(MaxDistricts)
    /\ pz = {r \in SamplePz : r.pid \in Range(properties)}
    /\ landmarks = IdTable(MaxLandmarks)
    /\ lmDist = Equidistant([l \in LandmarkIds |-> feet_to_meters(Feet(50 * l))])
    /\ settings \in Settings
    /\ LookupIdle
    /\ BuilderIdle
    /\ ImportIdle
    /\ PureIdle
    /\ OthersIdle

Next ==
    \/ \E address \in AddressInputs, bbl \in BblInputs, lat \in LatInputs,
          lon \in LonInputs, fault \in Faults :
            LookupCall(address, bbl, lat, lon, fault)
    \/ \E transport \in Transports :
        \E body \in 1..Len(BodiesOf(GeocodingService)) :
            LookupResume(transport, body)
    \/ \E bbl \in BblInputs, fault \in Faults : bbl.some /\ GetPropertyByBbl(bbl.v, fault)

Spec == Init /\ [][Next]_vars

(***************************************************************************)
(* Properties of property resolution.                                      *)
(***************************************************************************)
Stored == Range(properties)
IsLookup == pc = "done" /\ rq.endpoint = "lookup"

\* C1: a lookup with a non-empty bbl X resolves by exact match on
\* Property.bbl only: it issues no address or coordinate query and never
\* calls the geocoder, whatever address, lat and lon come with it; when the
\* store answers, the response is the stored property whose bbl is X, or
\* not-found when no stored property has that bbl.
C1_BblExactMatch ==
    (IsLookup /\ TruthyStr(rq.bbl)) =>
        /\ ~geo.called
        /\ trace[1] = "find_property_by_bbl"
        /\ "find_property_by_address" \notin Range(trace)
        /\ "find_property_by_coordinates" \notin Range(trace)
        /\ (rq.fault \notin {"find_property_by_bbl", "get_property_zoning_districts"}
                => resp.status = 200)
        /\ resp.status \in {200, 500}
        /\ resp.status = 200 =>
             IF \E p \in Stored : ParcelBbl(p) = rq.bbl.v
             THEN /\ resp.kind = "found"
                  /\ resp.property \in Stored
                  /\ ParcelBbl(resp.property) = rq.bbl.v
             ELSE resp = NotFoundResponse

C1_Witness ==
    /\ IsLookup /\ TruthyStr(rq.bbl) /\ TruthyAddr(rq.address)
    /\ rq.lat.some /\ rq.lon.some
    /\ resp.kind = "found"
    /\ properties[1] # resp.property
    /\ ILike(ParcelAddress(properties[1]), <<"%">> \o rq.address.v \o <<"%">>)

\* C2: a lookup that supplies no bbl, no address and no complete (lat, lon)
\* pair fails with the validation error, HTTP 400, whatever the store holds,
\* before any store query and before any geocoder call.
C2_NoInputIs400 ==
    (IsLookup /\ ~TruthyStr(rq.bbl) /\ ~TruthyAddr(rq.address)
              /\ ~(rq.lat.some /\ rq.lon.some)) =>
        /\ resp = HTTPException(400, "validation")
        /\ trace = <<>>
        /\ ~geo.called

C2_Witness ==
    /\ IsLookup /\ resp.kind = "validation"
    /\ rq.lat.some /\ ~rq.lon.some
    /\ Len(properties) > 0

\* the resolution of the request completed (no query raised, the geocoder,
\* if called, returned coordinates) and matched no stored property
NoMatch ==
    /\ IsLookup
    /\ IF TruthyStr(rq.bbl)
       THEN /\ rq.fault # "find_property_by_bbl"
            /\ \A p \in Stored : ParcelBbl(p) # rq.bbl.v
       ELSE IF TruthyAddr(rq.address)
       THEN /\ rq.fault \notin {"find_property_by_address", "find_property_by_coordinates"}
            /\ geo.state = "returned"
            /\ \A p \in Stored : ~ST_Contains(ParcelGeom(p), create_point(geo.lat, geo.lon))
       ELSE /\ rq.lat.some /\ rq.lon.some
            /\ rq.fault # "find_property_by_coordinates"
            /\ \A p \in Stored : ~ST_Contains(ParcelGeom(p), create_point(rq.lat.v, rq.lon.v))

\* C3: whenever resolution completes without a matching property (by bbl,
\* by address after a successful geocode, by coordinates) the response is
\* HTTP 200 with property = null and error = "Property not found".
C3_NotFoundIs200 ==
    NoMatch =>
        /\ resp.status = 200
        /\ resp.property = 0
        /\ resp.error = "Property not found"

C3_Witness ==
    /\ NoMatch
    /\ geo.state = "returned"
    /\ Len(properties) > 0
    /\ resp.status = 200 /\ resp.property = 0

\* C4: an address lookup (no bbl) whose address matches no stored address
\* and whose geocoder call fails, for whatever reason, answers the geocoding
\* error as HTTP 400, never HTTP 500 and never not-found.
C4_GeocodeFailureIs400 ==
    (IsLookup /\ ~TruthyStr(rq.bbl) /\ TruthyAddr(rq.address)
              /\ geo.called /\ geo.state = "raised") =>
        /\ resp.status = 400
        /\ resp.kind = "geocoding"

\* C5: geocode ends by returning a (latitude, longitude) pair or by raising
\* GeocodingError; no other exception type escapes it.
C5_OnlyGeocodingError ==
    geo.called =>
        \/ geo.state = "awaiting"
        \/ geo.state = "returned" /\ geo.exc = ""
        \/ geo.state = "raised" /\ geo.exc = "GeocodingError"

(***************************************************************************)
(* Direct calls of SpatialService.find_nearby_landmarks.                   *)
(***************************************************************************)
FindNearby(p, distance_feet) ==
    /\ ~nearby.called
    /\ pc = "idle"
    /\ nearby' = [called |-> TRUE, geometry |-> p, distance_feet |-> distance_feet,
                  result |-> find_nearby_landmarks(p, distance_feet)]
    /\ UNCHANGED <<storeVars, settings, pureVars, otherVars, lookupVars, builderVars, importVars>>

\* thresholds in whole feet, and the default of the endpoints
FeetWindow == (MaxFeet - 8)..MaxFeet
Thresholds == {Feet(k) : k \in FeetWindow} \cup {DEFAULT_DISTANCE_FEET}

\* distances the store may report: on a converted threshold, at the
\* geometry itself, and beyond the default threshold
DistValues == {feet_to_meters(Feet(k)) : k \in FeetWindow \cup {0, 200}}

InitNearby ==
    /\ properties = <<1>>
    /\ districts = IdTable(MaxDistricts)
    /\ pz = SamplePz
    /\ landmarks \in Tables(LandmarkIds)
    /\ lmDist \in {Equidistant(d) : d \in [LandmarkIds -> DistValues]}
    /\ settings = [provider |-> "nyc", api_key |-> ""]
    /\ LookupIdle
    /\ BuilderIdle
    /\ ImportIdle
    /\ PureIdle
    /\ OthersIdle

NextNearby ==
    \/ \E distance_feet \in Thresholds : FindNearby(1, distance_feet)
    \/ (~nearby.called /\ LookupCall(NoneAddr, Some(ParcelBbl(1)), NoneNum, NoneNum, ""))
    \/ (~nearby.called /\ GetPropertyByBbl(ParcelBbl(1), ""))

SpecNearby == InitNearby /\ [][NextNearby]_vars

(***************************************************************************)
(* Zoning enrichment: any ZoningDistrict and PropertyZoning tables.        *)
(***************************************************************************)
\* the PropertyZoning tables of at most MaxPzRows rows over the stored rows
\* ps and zs that satisfy the unique index on (property_id, zoning_district_id)
PzTables(ps, zs) ==
    {{[pid |-> pr[1], zid |-> pr[2], is_primary |-> (f[pr] = "primary")] :
         pr \in {x \in ps \X zs : f[x] # "absent"}} :
     f \in {g \in [ps \X zs -> {"absent", "primary", "secondary"}] :
               Cardinality({x \in ps \X zs : g[x] # "absent"}) <= MaxPzRows}}

InitZoning ==
    /\ properties = IdTable(MaxProps)
    /\ districts \in Tables(DistrictIds)
    /\ pz \in PzTables(Range(properties), Range(districts))
    /\ landmarks = IdTable(MaxLandmarks)
    /\ lmDist = Equidistant([l \in LandmarkIds |-> feet_to_meters(Feet(50 * l))])
    /\ settings = [provider |-> "nyc", api_key |-> ""]
    /\ LookupIdle
    /\ BuilderIdle
    /\ ImportIdle
    /\ PureIdle
    /\ OthersIdle

NextZoning ==
    \/ \E p \in ParcelIds, fault \in {"", "get_property_zoning_districts"} :
            LookupCall(NoneAddr, Some(ParcelBbl(p)), NoneNum, NoneNum, fault)
    \/ \E lon \in LonInputs :
            LookupCall(NoneAddr, NoneStr, Some(1), lon, "")
    \/ \E p \in ParcelIds : GetPropertyByBbl(ParcelBbl(p), "")

SpecZoning == InitZoning /\ [][NextZoning]_vars

(***************************************************************************)
(* Properties of the enrichment.                                           *)
(***************************************************************************)
\* C6 as stated: every returned pair reports a distance in feet that is at
\* most distance_feet, and every stored landmark whose distance is at most
\* the threshold is returned.
C6_ReportedWithinThreshold ==
    nearby.called =>
        /\ \A i \in DOMAIN nearby.result :
              nearby.result[i].distance_ft <= nearby.distance_feet
        /\ \A l \in Range(landmarks) :
              lmDist[l][nearby.geometry] <= feet_to_meters(nearby.distance_feet)
                  => \E i \in DOMAIN nearby.result : nearby.result[i].landmark = l

\* C6 as amended: every returned landmark lies, in meters, within the
\* threshold converted to meters (distance_feet * 0.3048); its reported
\* distance is that distance divided by 0.3048 and is at most the converted
\* threshold divided by 0.3048; every stored landmark within the converted
\* threshold is returned, once.
C6_WithinConvertedThreshold ==
    nearby.called =>
        LET g == nearby.geometry
            t == feet_to_meters(nearby.distance_feet)
            res == nearby.result
        IN  /\ \A i \in DOMAIN res :
                  /\ res[i].landmark \in Range(landmarks)
                  /\ lmDist[res[i].landmark][g] <= t
                  /\ res[i].distance_ft = meters_to_feet(lmDist[res[i].landmark][g])
                  /\ res[i].distance_ft <= meters_to_feet(t)
            /\ \A l \in Range(landmarks) :
                  lmDist[l][g] <= t
                      => Cardinality({i \in DOMAIN res : res[i].landmark = l}) = 1

\* a landmark exactly on the converted threshold is returned with a reported
\* distance above the threshold that was asked for
C6_Witness ==
    /\ nearby.called
    /\ \E i \in DOMAIN nearby.result :
          /\ lmDist[nearby.result[i].landmark][nearby.geometry]
                = feet_to_meters(nearby.distance_feet)
          /\ nearby.result[i].distance_ft > nearby.distance_feet
    /\ \E l \in Range(landmarks) :
          lmDist[l][nearby.geometry] > feet_to_meters(nearby.distance_feet)

IsSorted(s, Key(_)) == \A i \in 1..(Len(s) - 1) : Key(s[i]) <= Key(s[i + 1])

\* C7: the list returned by find_nearby_landmarks and the nearby_landmarks
\* list of every lookup_property and get_property_by_bbl response are sorted
\* by ascending distance, whatever the row order of the store.
C7_SortedByDistance ==
    LET Ft(e) == e.distance_ft
        Feet2(e) == e.distance_feet
    IN  /\ nearby.called => IsSorted(nearby.result, Ft)
        /\ resp.kind = "found" => IsSorted(resp.nearby_landmarks, Feet2)

ResolvedRows == PzRows(pz, resp.property)
ZoningEntries == {resp.zoning_districts[i] : i \in DOMAIN resp.zoning_districts}

\* C8: if the resolved property has a persisted PropertyZoning row, the
\* zoning_districts list of the response is exactly the persisted rows, each
\* with its persisted is_primary flag, and get_zoning_districts is not used.
C8_PersistedZoning ==
    (pc = "done" /\ resp.kind = "found" /\ ResolvedRows # {}) =>
        /\ ZoningEntries = {ZoningDistrictInfo(r.zid, r.is_primary) : r \in ResolvedRows}
        /\ Len(resp.zoning_districts) = Cardinality(ResolvedRows)
        /\ "get_zoning_districts" \notin Range(trace)

C8_Witness ==
    /\ pc = "done" /\ rq.endpoint = "lookup" /\ resp.kind = "found"
    /\ \E r \in ResolvedRows : r.is_primary
    /\ \E z \in Range(districts) :
          /\ ST_Intersects(ZoningGeom(z), ParcelGeom(resp.property))
          /\ \A r \in ResolvedRows : r.zid # z

IntersectingDistricts(p) ==
    LET Meets(z) == ST_Intersects(ZoningGeom(z), ParcelGeom(p))
    IN  SelectSeq(districts, Meets)

\* a plausible slip: every new row is flagged primary
create_property_zoning_relationships_all_primary(p) ==
    {[pid |-> p, zid |-> z, is_primary |-> TRUE] :
        z \in Range(IntersectingDistricts(p))}

\* SpatialService.create_property_zoning_relationships: the PropertyZoning
\* rows it adds to the session and commits
create_property_zoning_relationships(p) ==
    LET ds == IntersectingDistricts(p)
        Missing(i) == ~\E r \in pz : r.pid = p /\ r.zid = ds[i]
    IN  {[pid |-> p, zid |-> ds[i], is_primary |-> (i = 1)] :
            i \in {j \in DOMAIN ds : Missing(j)}}

\* a plausible slip: the existence check always answers "no relationships"
existing_count_none(p) == 0

\* len(spatial_service.get_property_zoning_districts(property_obj))
existing_count(p) == Cardinality(PzRows(pz, p))

\* db.query(Property) with the optional limit; limit = 0 stands for None
BuilderStart(limit) ==
    /\ bpc \in {"idle", "done"}
    /\ ipc # "running"
    /\ runs < MaxRuns
    /\ bprops' = IF limit # 0 /\ limit < Len(properties)
                 THEN SubSeq(properties, 1, limit)
                 ELSE properties
    /\ bidx' = 1
    /\ created' = 0
    /\ skipped' = 0
    /\ blast' = [pid |-> 0, what |-> "start"]
    /\ runs' = runs + 1
    /\ bpc' = "running"
    /\ startPz' = pz
    /\ UNCHANGED <<storeVars, settings, pureVars, otherVars, lookupVars, nearby, prevPz,
                   importVars>>

\* the places where create_property_zoning_relationships may raise
BuilderFaults == {"", "query", "commit"}

\* a plausible slip: the rows added before the error stay in the store
rollback_keeps_rows(p) == pz \cup create_property_zoning_relationships(p)

\* db.rollback() in the except clause of the loop: the PropertyZoning table
\* once the pending rows of property p are discarded
rollback(p) == pz

\* one iteration of the loop over `properties`, its except clause included
BuilderStep(fault) ==
    /\ bpc = "running"
    /\ bidx <= Len(bprops)
    /\ LET p == bprops[bidx]
       IN  IF existing_count(p) > 0
           THEN /\ skipped' = skipped + 1
                /\ blast' = [pid |-> p, what |-> "skipped"]
                /\ UNCHANGED <<pz, created>>
           ELSE IF fault # ""
           THEN \* the exception is logged, the session rolled back
                /\ pz' = rollback(p)
                /\ blast' = [pid |-> p, what |-> "error"]
                /\ UNCHANGED <<created, skipped>>
           ELSE /\ pz' = pz \cup create_property_zoning_relationships(p)
                /\ created' = created + 1
                /\ blast' = [pid |-> p, what |-> "created"]
                /\ UNCHANGED skipped
    /\ bidx' = bidx + 1
    /\ UNCHANGED <<properties, districts, landmarks, lmDist, settings, pureVars, otherVars, lookupVars,
                   nearby, bpc, bprops, runs, prevPz, startPz, importVars>>

\* the final commit and the report
BuilderFinish ==
    /\ bpc = "running"
    /\ bidx > Len(bprops)
    /\ bpc' = "done"
    /\ prevPz' = pz
    /\ blast' = [pid |-> 0, what |-> "report"]
    /\ UNCHANGED <<storeVars, settings, pureVars, otherVars, lookupVars, nearby, bprops, bidx,
                   created, skipped, runs, startPz, importVars>>

\* rows that exist before the builder runs (written by generate_sample_data
\* or by hand): at most one per parcel, primary or not
SeedRows ==
    {[pid |-> p, zid |-> ((p - 1) % MaxDistricts) + 1, is_primary |-> (p % 2 = 1)] :
        p \in ParcelIds}

InitBuilder ==
    /\ properties \in Tables(ParcelIds)
    /\ districts \in Tables(DistrictIds)
    /\ pz \in SUBSET {r \in SeedRows : r.pid \in Range(properties)
                                       /\ r.zid \in Range(districts)}
    /\ landmarks = IdTable(MaxLandmarks)
    /\ lmDist = Equidistant([l \in LandmarkIds |-> feet_to_meters(Feet(50 * l))])
    /\ settings = [provider |-> "nyc", api_key |-> ""]
    /\ LookupIdle
    /\ BuilderIdle
    /\ ImportIdle
    /\ PureIdle
    /\ OthersIdle

NextBuilder ==
    \/ \E limit \in 0..1 : BuilderStart(limit)
    \/ \E fault \in BuilderFaults : BuilderStep(fault)
    \/ BuilderFinish

SpecBuilder == InitBuilder /\ [][NextBuilder]_vars

\* the loop of create_relationships is sequential code: an iteration that can
\* run runs, and so does the final commit after the last iteration
SpecBuilderFair ==
    /\ SpecBuilder
    /\ WF_vars(\E fault \in BuilderFaults : BuilderStep(fault))
    /\ WF_vars(BuilderFinish)

(***************************************************************************)
(* Properties of the relationship builder.                                 *)
(***************************************************************************)
\* C10: a builder step over a property that already has a persisted
\* PropertyZoning row leaves that property's rows and their is_primary flags
\* unchanged and counts the property as skipped; so in a second run directly
\* after a first one no property that had rows at the end of the first run
\* gains or loses a row.
C10_RerunIsNoOp ==
    [][ /\ (bpc = "running" /\ bidx' = bidx + 1 /\ PzRows(pz, bprops[bidx]) # {}) =>
            /\ PzRows(pz', bprops[bidx]) = PzRows(pz, bprops[bidx])
            /\ skipped' = skipped + 1
            /\ created' = created
        /\ runs' >= 2 =>
            \A p \in ParcelIds :
                PzRows(prevPz', p) # {} => PzRows(pz', p) = PzRows(prevPz', p)
      ]_vars

\* the second run reaches a property that gained two rows in the first run,
\* one of them primary, and skips it
C10_Witness ==
    /\ runs = 2 /\ bpc = "running"
    /\ blast.what = "skipped"
    /\ Cardinality(PzRows(pz, blast.pid)) = 2
    /\ \E r \in PzRows(pz, blast.pid) : r.is_primary
    /\ \E r \in PzRows(pz, blast.pid) : ~r.is_primary
    /\ skipped >= 1

\* C11: a builder pass over a property with no persisted PropertyZoning row
\* that completes without an error persists exactly one row for each stored
\* district whose geometry intersects the property's geometry and no other
\* row; the row of the first district of the intersection query is flagged
\* primary and every other row is not.
C11_RowsPerIntersectingDistrict ==
    [][ (/\ bpc = "running" /\ bidx' = bidx + 1
         /\ PzRows(pz, bprops[bidx]) = {}
         /\ blast'.what = "created") =>
            LET p  == bprops[bidx]
                ds == IntersectingDistricts(p)
                new == PzRows(pz', p)
            IN  /\ \A z \in Range(districts) :
                       Cardinality({r \in new : r.zid = z})
                           = IF ST_Intersects(ZoningGeom(z), ParcelGeom(p)) THEN 1 ELSE 0
                /\ \A r \in new : r.zid \in Range(districts)
                /\ \A r \in new : r.is_primary <=> (r.zid = ds[1])
                /\ pz' \ new = pz
      ]_vars

\* a pass has just written two rows for a property that had none, the first
\* district of the query primary and the other one not
C11_Witness ==
    /\ bpc = "running" /\ blast.what = "created"
    /\ Len(IntersectingDistricts(blast.pid)) = 2
    /\ PzRows(pz, blast.pid) =
          {[pid |-> blast.pid, zid |-> IntersectingDistricts(blast.pid)[1],
            is_primary |-> TRUE],
           [pid |-> blast.pid, zid |-> IntersectingDistricts(blast.pid)[2],
            is_primary |-> FALSE]}

Importers == {"mappluto", "zoning", "landmarks"}

\* the table an importer writes
TableOf(kind) ==
    CASE kind = "mappluto"  -> properties
      [] kind = "zoning"    -> districts
      [] kind = "landmarks" -> landmarks
      [] OTHER              -> <<>>

\* the column the existence query filters on: Property.bbl,
\* ZoningDistrict.zoning_code, Landmark.name
NaturalKey(kind, id) ==
    CASE kind = "mappluto"  -> ParcelBbl(id)
      [] kind = "zoning"    -> ZoningCode(id)
      [] OTHER              -> LandmarkName(id)

\* unique=True on Property.bbl and ZoningDistrict.zoning_code; Landmark.name
\* carries no unique constraint
HasUniqueKey(kind) == kind \in {"mappluto", "zoning"}

\* the records a file is made of.  key: the catalogue row whose natural key
\* the record carries, 0 when _extract_bbl / _extract_zoning_code /
\* _extract_name return nothing.  geometry: "ok"; "none" when row.geometry is
\* None, so that geometry.wkt raises AttributeError; "rejected" when the
\* value is one the table refuses as the row is flushed (a MultiPolygon for
\* a POLYGON column, a string longer than its column).
Records ==
    {[key |-> 0, geometry |-> "ok"],
     [key |-> 1, geometry |-> "ok"],
     [key |-> 2, geometry |-> "ok"],
     [key |-> 1, geometry |-> "none"],
     [key |-> 2, geometry |-> "rejected"]}

Files == UNION {[1..n -> Records] : n \in 0..MaxFile}

BatchSizes == {1, 2}

\* .filter(<key column> == key).first() on the committed rows
existing(kind, key) ==
    LET SameKey(id) == NaturalKey(kind, id) = NaturalKey(kind, key)
    IN  First(SelectSeq(TableOf(kind), SameKey))

\* a plausible slip: a stored entity is overwritten whatever update_existing says
ProcessRecord_ignores_flag(kind, rec, update_existing) ==
    IF rec.key = 0 THEN "skipped"
    ELSE IF rec.geometry = "none" THEN "errors"
    ELSE IF existing(kind, rec.key) # 0 THEN "updated"
    ELSE "inserted"

\* the body of the try block for one record: the counter it increments
ProcessRecord(kind, rec, update_existing) ==
    IF rec.key = 0 THEN "skipped"
    ELSE IF existing(kind, rec.key) # 0 /\ ~update_existing THEN "skipped"
    ELSE IF rec.geometry = "none" THEN "errors"
    ELSE IF existing(kind, rec.key) # 0 THEN "updated"
    ELSE "inserted"

\* the flush of self.db.commit() raises: a pending value is refused, or two
\* pending rows, or a pending and a stored row, share a unique key
FlushFails(kind, pending) ==
    \/ \E i \in DOMAIN pending : pending[i].geometry = "rejected"
    \/ /\ HasUniqueKey(kind)
       /\ \E i \in DOMAIN pending :
            /\ pending[i].op = "inserted"
            /\ \/ existing(kind, pending[i].key) # 0
               \/ \E j \in DOMAIN pending :
                    /\ j # i /\ pending[j].op = "inserted"
                    /\ NaturalKey(kind, pending[j].key)
                         = NaturalKey(kind, pending[i].key)

\* the ids of the rows the pending inserts create, in the order of the adds
RECURSIVE NewRows(_)
NewRows(pending) ==
    IF pending = <<>> THEN <<>>
    ELSE (IF Head(pending).op = "inserted" THEN <<Head(pending).key>> ELSE <<>>)
            \o NewRows(Tail(pending))

\* the row orders a table can show once the rows t are inserted into the
\* rows s: no query of the code has an ORDER BY, so the position of a new
\* row among the old ones is the database's choice
RECURSIVE Merges(_, _)
Merges(s, t) ==
    IF s = <<>> THEN {t}
    ELSE IF t = <<>> THEN {s}
    ELSE {<<Head(s)>> \o m : m \in Merges(Tail(s), t)}
            \cup {<<Head(t)>> \o m : m \in Merges(s, Tail(t))}

\* range(0, len(gdf), batch_size): record number pos closes its batch
BatchEnd(pos, n, batch_size) == pos % batch_size = 0 \/ pos = n

\* a plausible slip: the dry_run flag is not honoured
AfterLoad_ignores_dry_run(dry_run) == "running"

\* lines 65-67: a dry run returns the fresh stats right after the load
AfterLoad(dry_run) == IF dry_run THEN "done" ELSE "running"

\* how the call that is now over ended
RunSummary ==
    IF ipc = "idle" THEN NoRun
    ELSE [outcome |-> IF ipc = "done" THEN "returned" ELSE "raised",
          stats |-> stats, count |-> Len(TableOf(imp.kind)),
          update_existing |-> imp.update_existing, dry_run |-> imp.dry_run]

\* import_file up to the first record of the first batch
ImportStart(kind, file, batch_size, update_existing, dry_run) ==
    /\ ipc # "running"
    /\ bpc # "running"
    /\ imp' = [kind |-> kind, file |-> file, batch_size |-> batch_size,
               update_existing |-> update_existing, dry_run |-> dry_run]
    /\ stats' = NoStats(Len(file))
    /\ ipos' = 1
    /\ ipending' = <<>>
    /\ iruns' = iruns + 1
    /\ iprev' = RunSummary
    /\ ipc' = AfterLoad(dry_run)
    /\ UNCHANGED <<storeVars, settings, pureVars, otherVars, lookupVars, nearby,
                   builderVars, fields>>

\* a plausible slip: a record that fails is not counted at all
Bump_drops_errors(st, counter) ==
    IF counter = "errors" THEN st ELSE [st EXCEPT ![counter] = @ + 1]

\* stats[counter] += 1
Bump(st, counter) == [st EXCEPT ![counter] = @ + 1]

\* the pending work of the batch once the record at position pos is processed
PendingWith(pending, rec, pos, counter) ==
    IF counter \in {"inserted", "updated"}
    THEN Append(pending, [key |-> rec.key, geometry |-> rec.geometry,
                          op |-> counter, pos |-> pos])
    ELSE pending

\* the mapped fields of the rows the committed batch wrote: for each natural
\* key the record (run, position in the file) whose values the row now has
RECURSIVE WriteFields(_, _, _, _)
WriteFields(fs, kind, pending, run) ==
    IF pending = <<>> THEN fs
    ELSE WriteFields({f \in fs : ~(f.kind = kind /\ f.key = Head(pending).key)}
                        \cup {[kind |-> kind, key |-> Head(pending).key,
                               run |-> run, pos |-> Head(pending).pos]},
                     kind, Tail(pending), run)

\* a plausible slip: the rows added before the failing one stay in the table
RolledBack_keeps_added(kind, pending) == TableOf(kind) \o NewRows(pending)

\* the table after self.db.commit() has raised: the transaction of the batch
\* is rolled back, the commits of the earlier batches stand
RolledBack(kind, pending) == TableOf(kind)

\* one record of the file, and the commit of its batch when it is the
\* batch's last record
ImportRecord ==
    /\ ipc = "running"
    /\ ipos <= Len(imp.file)
    /\ LET kind    == imp.kind
           rec     == imp.file[ipos]
           counter == ProcessRecord(kind, rec, imp.update_existing)
           pending == PendingWith(ipending, rec, ipos, counter)
           Store(t) == /\ properties' = IF kind = "mappluto" THEN t ELSE properties
                       /\ districts' = IF kind = "zoning" THEN t ELSE districts
                       /\ landmarks' = IF kind = "landmarks" THEN t ELSE landmarks
       IN  /\ stats' = Bump(stats, counter)
           /\ IF ~BatchEnd(ipos, Len(imp.file), imp.batch_size)
              THEN /\ ipending' = pending
                   /\ ipc' = "running"
                   /\ UNCHANGED <<properties, districts, landmarks, fields>>
              ELSE IF FlushFails(kind, pending)
              THEN \* the exception leaves import_file; nothing of the batch is stored
                   /\ ipending' = <<>>
                   /\ ipc' = "aborted"
                   /\ Store(RolledBack(kind, pending))
                   /\ fields' = fields
              ELSE /\ ipending' = <<>>
                   /\ ipc' = "running"
                   /\ \E t \in Merges(TableOf(kind), NewRows(pending)) : Store(t)
                   /\ fields' = WriteFields(fields, kind, pending, iruns)
    /\ ipos' = ipos + 1
    /\ UNCHANGED <<pz, lmDist, settings, pureVars, otherVars, lookupVars, nearby,
                   builderVars, imp, iruns, iprev>>

\* the end of the loop: import_file returns stats
ImportFinish ==
    /\ ipc = "running"
    /\ ipos > Len(imp.file)
    /\ ipc' = "done"
    /\ UNCHANGED <<storeVars, settings, pureVars, otherVars, lookupVars, nearby,
                   builderVars, imp, ipos, stats, ipending, iruns, iprev, fields>>

\* a store that holds the first row of each table, then an import and a
\* second import of the same file
InitImport ==
    /\ properties = IdTable(1)
    /\ districts = IdTable(1)
    /\ pz = SamplePz
    /\ landmarks = IdTable(1)
    /\ lmDist = Equidistant([l \in LandmarkIds |-> feet_to_meters(Feet(50 * l))])
    /\ settings = [provider |-> "nyc", api_key |-> ""]
    /\ LookupIdle
    /\ BuilderIdle
    /\ ImportIdle
    /\ PureIdle
    /\ OthersIdle

NextImport ==
    \/ \E kind \in Importers, file \in Files, batch_size \in BatchSizes,
          update_existing \in BOOLEAN, dry_run \in BOOLEAN :
            /\ iruns = 0
            /\ ImportStart(kind, file, batch_size, update_existing, dry_run)
    \/ \E batch_size \in BatchSizes, update_existing \in BOOLEAN, dry_run \in BOOLEAN :
            /\ iruns = 1
            /\ ImportStart(imp.kind, imp.file, batch_size, update_existing, dry_run)
    \/ ImportRecord
    \/ ImportFinish

SpecImport == InitImport /\ [][NextImport]_vars

(***************************************************************************)
(* Properties of the importers.                                            *)
(***************************************************************************)
\* a second import_file call on the same file is over, and neither call was
\* a dry run or asked for updates
SecondPlainRunOver ==
    /\ iruns = 2 /\ (ipc = "aborted" \/ (ipc = "done"))
    /\ ~imp.update_existing /\ ~imp.dry_run
    /\ ~iprev.update_existing /\ ~iprev.dry_run

\* C15: when import_file has run twice in sequence on the same file with
\* update_existing = false, the second run returns a summary with
\* inserted = 0 and the table holds as many entities as after the first run.
C15_SecondRunInsertsNothing ==
    SecondPlainRunOver =>
        /\ ipc = "done"
        /\ stats.inserted = 0
        /\ Len(TableOf(imp.kind)) = iprev.count

\* the same restricted to a first run that returned its summary
C15_AfterReturnedRun ==
    (SecondPlainRunOver /\ iprev.outcome = "returned") =>
        /\ ipc = "done"
        /\ stats.inserted = 0
        /\ Len(TableOf(imp.kind)) = iprev.count

\* C16: a record without a key is counted as skipped and adds nothing to the
\* session; a record whose processing fails (its geometry is missing or is
\* refused by the table) is counted in errors, unless the existence check
\* skipped it first; and no record makes import_file stop: after every
\* record the call is still in its loop.
C16_RecordFailureNeverAborts ==
    [][ (ipc = "running" /\ ipos' = ipos + 1) =>
            LET rec == imp.file[ipos]
            IN  /\ rec.key = 0 =>
                    /\ stats' = [stats EXCEPT !.skipped = @ + 1]
                    /\ ipending' = ipending \/ ipending' = <<>>
                /\ (rec.key # 0 /\ rec.geometry # "ok"
                      /\ stats'.skipped = stats.skipped) =>
                        stats' = [stats EXCEPT !.errors = @ + 1]
                /\ ipc' = "running"
      ]_vars

\* C17: a dry run changes no table, adds nothing to the session and ends in
\* the very step that loaded the file, with total = the number of records of
\* the file and the other four counters 0.
C17_DryRunWritesNothing ==
    [][ (iruns' = iruns + 1 /\ imp'.dry_run) =>
            /\ storeVars' = storeVars
            /\ ipending' = <<>>
            /\ ipc' = "done"
            /\ stats' = [total |-> Len(imp'.file), inserted |-> 0, updated |-> 0,
                         skipped |-> 0, errors |-> 0]
      ]_vars

\* a dry run with update_existing set has returned on a file of two records,
\* one of a stored key and one of a key the table does not hold
C17_Witness ==
    /\ ipc = "done" /\ imp.dry_run /\ imp.update_existing
    /\ Len(imp.file) = 2 /\ stats.total = 2
    /\ existing(imp.kind, imp.file[1].key) # 0
    /\ imp.file[2].key # 0 /\ existing(imp.kind, imp.file[2].key) = 0
    /\ imp.file[2].geometry = "ok"

(***************************************************************************)
(* The PropertyZoning table under zoning imports, builder runs and direct  *)
(* calls of create_property_zoning_relationships, from a store without     *)
(* relationships.                                                          *)
(***************************************************************************)
\* a plausible slip: no existence check before a row is added
CreateRelationships_unchecked(p) ==
    /\ bpc # "running"
    /\ ipc # "running"
    /\ p \in Range(properties)
    /\ pz' = pz \cup {[pid |-> p, zid |-> IntersectingDistricts(p)[i],
                       is_primary |-> (i = 1)] :
                        i \in DOMAIN IntersectingDistricts(p)}
    /\ UNCHANGED <<properties, districts, landmarks, lmDist, settings, pureVars, otherVars, lookupVars,
                   nearby, builderVars, importVars>>

\* spatial_service.create_property_zoning_relationships(property) called on
\* its own, outside a builder run
CreateRelationships(p) ==
    /\ bpc # "running"
    /\ ipc # "running"
    /\ p \in Range(properties)
    /\ pz' = pz \cup create_property_zoning_relationships(p)
    /\ UNCHANGED <<properties, districts, landmarks, lmDist, settings, pureVars, otherVars, lookupVars,
                   nearby, builderVars, importVars>>

\* zoning files whose records all carry a code and a geometry the table takes;
\* one of them is imported at any point among the builder runs and the calls
ZoningFiles ==
    {f \in Files : \A i \in DOMAIN f : f[i].key # 0 /\ f[i].geometry = "ok"}

InitRelations ==
    /\ properties = IdTable(MaxProps)
    /\ districts \in Tables(DistrictIds)
    /\ pz = {}
    /\ landmarks = IdTable(MaxLandmarks)
    /\ lmDist = Equidistant([l \in LandmarkIds |-> feet_to_meters(Feet(50 * l))])
    /\ settings = [provider |-> "nyc", api_key |-> ""]
    /\ LookupIdle
    /\ BuilderIdle
    /\ ImportIdle
    /\ PureIdle
    /\ OthersIdle

NextRelations ==
    \/ \E file \in ZoningFiles, batch_size \in BatchSizes, update_existing \in BOOLEAN :
            /\ iruns = 0
            /\ ImportStart("zoning", file, batch_size, update_existing, FALSE)
    \/ ImportRecord
    \/ ImportFinish
    \/ BuilderStart(0)
    \/ \E fault \in BuilderFaults : BuilderStep(fault)
    \/ BuilderFinish
    \/ \E p \in ParcelIds : CreateRelationships(p)

SpecRelations == InitRelations /\ [][NextRelations]_vars

\* C12: the PropertyZoning table never holds two rows for the same
\* (property, zoning district) pair.
C12_UniquePair ==
    \A r1 \in pz, r2 \in pz :
        (r1.pid = r2.pid /\ r1.zid = r2.zid) => r1 = r2

\* a property skipped by a builder run holds rows for two districts, one of
\* them inserted by a zoning import
C12_Witness ==
    /\ iruns >= 1 /\ ipc = "done" /\ stats.inserted >= 1
    /\ runs >= 1 /\ blast.what = "skipped"
    /\ Cardinality(PzRows(pz, blast.pid)) = 2
    /\ Cardinality({r.zid : r \in PzRows(pz, blast.pid)}) = 2

\* C13: every property has at most one PropertyZoning row flagged
\* is_primary, and a property that has a row has exactly one.
C13_OnePrimary ==
    \A p \in ParcelIds :
        LET primary == {r \in PzRows(pz, p) : r.is_primary}
        IN  /\ Cardinality(primary) <= 1
            /\ PzRows(pz, p) # {} => Cardinality(primary) = 1

(***************************************************************************)
(* Properties of the two endpoints.                                        *)
(***************************************************************************)
\* C18: no step of a lookup_property or get_property_by_bbl request, whatever
\* its outcome, changes the Property, ZoningDistrict, PropertyZoning or
\* Landmark table.
C18_LookupIsPureRead ==
    [][ (pc' # pc \/ rq' # rq \/ resp' # resp) => storeVars' = storeVars ]_vars

\* a lookup answered from the live-intersection fallback: the property has
\* no PropertyZoning row, the response lists a district, other properties
\* have rows
C18_Witness ==
    /\ pc = "done" /\ resp.kind = "found"
    /\ \E i \in DOMAIN trace : trace[i] = "get_zoning_districts"
    /\ Len(resp.zoning_districts) >= 1
    /\ PzRows(pz, resp.property) = {}
    /\ pz # {}

\* the point lies on the boundary of the rectangle
OnBoundary(g, pt) ==
    /\ g.x1 <= pt.x /\ pt.x <= g.x2
    /\ g.y1 <= pt.y /\ pt.y <= g.y2
    /\ ~ST_Contains(g, pt)

\* C19: a lookup by coordinates whose point lies on the boundary of a stored
\* property's polygon resolves to a property: when the store answers, the
\* response is not the not-found response.
C19_BoundaryInclusive ==
    (/\ IsLookup /\ ~TruthyStr(rq.bbl) /\ ~TruthyAddr(rq.address)
     /\ rq.lat.some /\ rq.lon.some /\ rq.fault = ""
     /\ \E p \in Stored :
            OnBoundary(ParcelGeom(p), create_point(rq.lat.v, rq.lon.v))) =>
        /\ resp.kind = "found"
        /\ resp.property \in Stored

\* C20: when the store answers, GET /{bbl} returns HTTP 404 with a detail
\* containing "not found" if no stored property has the bbl of the path, and
\* HTTP 200 with the stored property whose bbl is the path value otherwise.
C20_ByBblStatus ==
    (pc = "done" /\ rq.endpoint = "by_bbl" /\ rq.fault = "") =>
        IF \A p \in Stored : ParcelBbl(p) # rq.bbl.v
        THEN /\ resp.status = 404
             /\ Contains(LowerStr(Detail(resp)),
                         <<"n", "o", "t", " ", "f", "o", "u", "n", "d">>)
             /\ resp.property = 0
        ELSE /\ resp.status = 200
             /\ resp.property \in Stored
             /\ ParcelBbl(resp.property) = rq.bbl.v

\* the direct endpoint has answered 404 on a store that holds properties
C20_Witness ==
    /\ pc = "done" /\ rq.endpoint = "by_bbl" /\ rq.fault = ""
    /\ Len(properties) >= 1
    /\ \A p \in Stored : ParcelBbl(p) # rq.bbl.v
    /\ resp.status = 404

\* the direct endpoint has answered 200 with the second row of the table
C20_WitnessFound ==
    /\ pc = "done" /\ rq.endpoint = "by_bbl" /\ rq.fault = ""
    /\ Len(properties) >= 2
    /\ resp.status = 200 /\ resp.property = properties[2]

(***************************************************************************)
(* Specification SpecConvert: app/utils/postgis.py, feet_to_meters and     *)
(* meters_to_feet applied one after the other to a drawn float.            *)
(***************************************************************************)
FeetValues == {n \in 0..(MaxFeet * One) : Representable(n)}

\* meters_to_feet(feet_to_meters(x))
RoundTrip(x) ==
    /\ ~conv.called
    /\ conv.x = x
    /\ conv' = [called |-> TRUE, x |-> x, meters |-> feet_to_meters(x),
                feet |-> meters_to_feet(feet_to_meters(x))]
    /\ UNCHANGED <<storeVars, settings, lookupVars, nearby, builderVars, importVars,
                   norm, extract, otherVars>>

\* the functions of this part read no table: the store is empty
EmptyStore ==
    /\ properties = <<>>
    /\ districts = <<>>
    /\ pz = {}
    /\ landmarks = <<>>
    /\ lmDist = Equidistant([l \in LandmarkIds |-> feet_to_meters(Feet(50 * l))])
    /\ settings = [provider |-> "nyc", api_key |-> ""]
    /\ LookupIdle
    /\ BuilderIdle
    /\ ImportIdle
    /\ OthersIdle

InitConvert ==
    /\ EmptyStore
    /\ norm = NoNorm
    /\ extract = NoExtract
    /\ \E x \in FeetValues : conv = [NoConv EXCEPT !.x = x]

NextConvert == \E x \in FeetValues : RoundTrip(x)

SpecConvert == InitConvert /\ [][NextConvert]_vars

\* C22 (as stated): the round trip is the identity,
\* meters_to_feet(feet_to_meters(x)) == x for every float x.
C22_RoundTripIdentity == conv.called => conv.feet = conv.x

\* C22 (amended): feet_to_meters is one rounded multiplication by 0.3048 and
\* meters_to_feet one rounded division by it; the round trip returns x to
\* within one unit in the last place of x when the intermediate meters value
\* is a normal float, and to within two units of the float grid below that.
C22_RoundTripWithinUlp ==
    conv.called =>
        /\ conv.meters = RoundRatio(conv.x * FT_TO_M, One)
        /\ conv.feet = RoundRatio(conv.meters * One, FT_TO_M)
        /\ Abs(conv.feet - conv.x) <= 2 * Ulp(conv.x)
        /\ Normal(conv.meters) => Abs(conv.feet - conv.x) <= Ulp(conv.x)

\* a normal float that does not come back: 13.25 ft
C22_Witness ==
    /\ conv.called
    /\ Normal(conv.meters)
    /\ conv.feet # conv.x

(***************************************************************************)
(* Specification SpecNormalize: GeocodingService.normalize_address applied *)
(* to a drawn address and then to its own output.                          *)
(***************************************************************************)
MaxPieces == 3         \* pieces an address is put together from

Pieces == {<<" ">>, <<" ", " ">>, <<"\t">>, <<"a">>, <<"5">>, <<"N", "Y">>,
           <<"n", "y">>, <<"N", "e", "w">>, <<"Y", "o", "r", "k">>}

RECURSIVE Concat(_)
Concat(ps) == IF Len(ps) = 0 THEN <<>> ELSE Head(ps) \o Concat(Tail(ps))

Addresses == {Concat(ps) : ps \in UNION {[1..n -> Pieces] : n \in 0..MaxPieces}}

Normalize(address) ==
    /\ ~norm.called
    /\ norm.address = address
    /\ norm' = [called |-> TRUE, address |-> address,
                once |-> normalize_address(address),
                twice |-> normalize_address(normalize_address(address))]
    /\ UNCHANGED <<storeVars, settings, lookupVars, nearby, builderVars, importVars,
                   conv, extract, otherVars>>

InitNormalize ==
    /\ EmptyStore
    /\ conv = NoConv
    /\ extract = NoExtract
    /\ \E address \in Addresses : norm = [NoNorm EXCEPT !.address = address]

NextNormalize == \E address \in Addresses : Normalize(address)

SpecNormalize == InitNormalize /\ [][NextNormalize]_vars

\* the maximal runs of non-whitespace characters of s, in order
RECURSIVE WordsOf(_, _)
WordsOf(s, word) ==
    IF Len(s) = 0 THEN (IF Len(word) = 0 THEN <<>> ELSE <<word>>)
    ELSE IF IsSpace(Head(s))
         THEN (IF Len(word) = 0 THEN <<>> ELSE <<word>>) \o WordsOf(Tail(s), <<>>)
    ELSE WordsOf(Tail(s), Append(word, Head(s)))

\* the words joined by one space each
RECURSIVE SpaceJoined(_)
SpaceJoined(ws) ==
    IF Len(ws) = 0 THEN <<>>
    ELSE IF Len(ws) = 1 THEN ws[1]
    ELSE ws[1] \o <<" ">> \o SpaceJoined(Tail(ws))

\* every run of whitespace of s replaced by one space, wherever it stands
RECURSIVE EveryRunToOneSpace(_, _)
EveryRunToOneSpace(s, inRun) ==
    IF Len(s) = 0 THEN <<>>
    ELSE IF IsSpace(Head(s))
         THEN (IF inRun THEN <<>> ELSE <<" ">>) \o EveryRunToOneSpace(Tail(s), TRUE)
    ELSE <<Head(s)>> \o EveryRunToOneSpace(Tail(s), FALSE)

\* "new york" or "ny" occurs in s, whatever the case of the letters
Mentions(s) ==
    \/ Contains(LowerStr(s), <<"n", "e", "w", " ", "y", "o", "r", "k">>)
    \/ Contains(LowerStr(s), <<"n", "y">>)

WithSuffixUnlessMentioned(s) == IF Mentions(s) THEN s ELSE s \o NY_SUFFIX

\* C26 (as stated): normalize_address replaces every run of whitespace by a
\* single space, appends ", New York, NY" exactly when the address mentions
\* neither "New York" nor "NY", and is idempotent.
C26_EveryRunCollapsed ==
    norm.called =>
        /\ norm.once = WithSuffixUnlessMentioned(EveryRunToOneSpace(norm.address, FALSE))
        /\ norm.twice = norm.once

\* C26 (amended): normalize_address removes leading and trailing whitespace
\* and replaces every run of whitespace between two words by a single space;
\* it appends ", New York, NY" exactly when the result contains neither
\* "new york" nor "ny" as a substring, letters compared without case; and
\* applying it to its own output returns that output.
C26_NormalizeAddress ==
    norm.called =>
        /\ norm.once = WithSuffixUnlessMentioned(SpaceJoined(WordsOf(norm.address, <<>>)))
        /\ norm.twice = norm.once

\* an address with leading whitespace and an inner run, normalised and suffixed
C26_Witness ==
    /\ norm.called
    /\ Len(norm.address) > 0
    /\ IsSpace(norm.address[1])
    /\ \E i \in 1..(Len(norm.address) - 2) :
          /\ ~IsSpace(norm.address[i])
          /\ IsSpace(norm.address[i + 1])
          /\ IsSpace(norm.address[i + 2])
    /\ ~Mentions(norm.address)
    /\ Len(norm.once) > Len(NY_SUFFIX)
    /\ SubSeq(norm.once, Len(norm.once) - Len(NY_SUFFIX) + 1, Len(norm.once)) = NY_SUFFIX

\* an address that names the city in capitals is returned without the suffix
C26_WitnessMentioned ==
    /\ norm.called
    /\ Contains(norm.address, <<"N", "Y">>)
    /\ norm.once = norm.address

(***************************************************************************)
(* Specification SpecExtract: MapPLUTOImporter on one record, from         *)
(* _extract_bbl and _extract_property_data to the flush of the new row.    *)
(* A row is a record of the columns the two methods read; a column that    *)
(* the file does not have is NoField.                                      *)
(***************************************************************************)
NoField == [t |-> "absent"]
StrValue(chars) == [t |-> "str", v |-> chars]
FloatValue(chars) == [t |-> "float", v |-> chars]       \* chars: the integral part
NoneValue == [t |-> "none"]
IntValue(n) == [t |-> "int", n |-> n]

DigitChars == <<"0", "1", "2", "3", "4", "5", "6", "7", "8", "9">>

\* str(n) of a natural number
RECURSIVE DecStr(_)
DecStr(n) == IF n < 10 THEN <<DigitChars[n + 1]>>
             ELSE DecStr(n \div 10) \o <<DigitChars[(n % 10) + 1]>>

\* s.zfill(width), also the padding of the format specs 05d and 04d
RECURSIVE zfill(_, _)
zfill(s, width) == IF Len(s) >= width THEN s ELSE zfill(<<"0">> \o s, width)

\* str(value)
PyStr(value) ==
    CASE value.t = "str"   -> value.v
      [] value.t = "float" -> value.v \o <<".", "0">>
      [] value.t = "none"  -> <<"N", "o", "n", "e">>
      [] value.t = "int"   -> DecStr(value.n)

\* str(borough).upper() looked up in borough_map; "" stands for None
BoroughCodeOf(name) ==
    CASE name \in {"1", "MANHATTAN", "MN", "mn"}   -> "1"
      [] name \in {"2", "BRONX", "BX"}             -> "2"
      [] name \in {"3", "BROOKLYN", "BK", "bk", "KINGS"} -> "3"
      [] name \in {"4", "QUEENS", "QN"}            -> "4"
      [] name \in {"5", "STATEN ISLAND", "SI", "RICHMOND"} -> "5"
      [] OTHER -> ""

_get_borough_code(row) ==
    IF row.Borough = NoField THEN "" ELSE BoroughCodeOf(row.Borough.v)

BBL_WIDTH == 10
BLOCK_WIDTH == 5
LOT_WIDTH == 4

\* <<>> stands for None
_extract_bbl(row) ==
    IF row.BBL # NoField THEN zfill(PyStr(row.BBL), BBL_WIDTH)
    ELSE IF /\ _get_borough_code(row) # ""
            /\ row.Block # NoField
            /\ row.Lot # NoField
         THEN zfill(<<_get_borough_code(row)>> \o zfill(DecStr(row.Block.n), BLOCK_WIDTH)
                        \o zfill(DecStr(row.Lot.n), LOT_WIDTH), BBL_WIDTH)
         ELSE <<>>

\* borough_map.get(borough_code, Borough.MANHATTAN)
BoroughEnum(code) ==
    CASE code = "2" -> "BRONX"
      [] code = "3" -> "BROOKLYN"
      [] code = "4" -> "QUEENS"
      [] code = "5" -> "STATEN_ISLAND"
      [] OTHER      -> "MANHATTAN"

_extract_property_data(row) ==
    [bbl     |-> _extract_bbl(row),
     borough |-> BoroughEnum(_get_borough_code(row)),
     block   |-> IF row.Block = NoField THEN 0 ELSE row.Block.n,
     lot     |-> IF row.Lot = NoField THEN 0 ELSE row.Lot.n]

\* the row passes the flush: bbl is a String(10) column
Flushes(data) == Len(data.bbl) <= BBL_WIDTH

NotStored == [bbl |-> <<>>, borough |-> "", block |-> 0, lot |-> 0]

\* the body of the record loop for a bbl that is not stored yet, and the
\* commit of its batch
ImportRow(row) ==
    /\ ~extract.called
    /\ extract.row = row
    /\ extract' = [called |-> TRUE, row |-> row,
                   stored |-> IF _extract_bbl(row) = <<>> THEN NotStored
                              ELSE IF Flushes(_extract_property_data(row))
                                   THEN _extract_property_data(row)
                                   ELSE NotStored]
    /\ UNCHANGED <<storeVars, settings, lookupVars, nearby, builderVars, importVars,
                   conv, norm, otherVars>>

BblFields == {NoField, NoneValue,
              StrValue(<<"1", "0", "0", "0", "1", "2", "0", "0", "0", "1">>),
              StrValue(<<"3", "0", "0", "0", "1", "2", "0", "0", "0", "1">>),
              StrValue(<<"1", "2", "0", "0", "0", "1">>),
              FloatValue(<<"1", "0", "0", "0", "1", "2", "0", "0", "0", "1">>)}
BoroughFields == {NoField} \cup {StrValue(b) : b \in {"1", "MN", "bk", "3", "NJ"}}
BlockFields == {NoField, IntValue(12), IntValue(0), IntValue(123456)}
LotFields == {NoField, IntValue(1), IntValue(12345)}

Rows == [BBL : BblFields, Borough : BoroughFields, Block : BlockFields, Lot : LotFields]

InitExtract ==
    /\ EmptyStore
    /\ conv = NoConv
    /\ norm = NoNorm
    /\ \E row \in Rows : extract = [NoExtract EXCEPT !.row = row]

NextExtract == \E row \in Rows : ImportRow(row)

SpecExtract == InitExtract /\ [][NextExtract]_vars

BoroughDigit(borough) ==
    CASE borough = "MANHATTAN"     -> "1"
      [] borough = "BRONX"         -> "2"
      [] borough = "BROOKLYN"      -> "3"
      [] borough = "QUEENS"        -> "4"
      [] borough = "STATEN_ISLAND" -> "5"

IsStored == extract.called /\ extract.stored # NotStored

\* C21: every stored Property has a bbl of exactly 10 characters that is the
\* digit of its stored borough, then its stored block padded to 5 digits,
\* then its stored lot padded to 4 digits, whether the bbl came from a BBL
\* field or was put together from borough, block and lot.
C21_BblInvariant ==
    IsStored =>
        /\ Len(extract.stored.bbl) = BBL_WIDTH
        /\ extract.stored.bbl = <<BoroughDigit(extract.stored.borough)>>
                                  \o zfill(DecStr(extract.stored.block), BLOCK_WIDTH)
                                  \o zfill(DecStr(extract.stored.lot), LOT_WIDTH)

\* the part of C21 that holds: a bbl put together from borough, block and lot
C21_ConstructedBbl == (IsStored /\ extract.row.BBL = NoField) => C21_BblInvariant

\* a constructed bbl is stored
C21_WitnessConstructed == IsStored /\ extract.row.BBL = NoField

(***************************************************************************)
(* Properties of the address lookup (specification Spec).                  *)
(***************************************************************************)
\* a lookup that takes the address branch, suspended in the geocoder or done
AddressLookup ==
    /\ pc \in {"geocoding", "done"}
    /\ rq.endpoint = "lookup"
    /\ ~TruthyStr(rq.bbl)
    /\ TruthyAddr(rq.address)

C23_WitnessDirect ==
    /\ AddressLookup /\ pc = "done"
    /\ resp.kind = "found"
    /\ ~geo.called
    /\ rq.lat.some /\ rq.lon.some

(***************************************************************************)
(* Properties of the builder's report (specification SpecBuilder).         *)
(***************************************************************************)
\* the properties of the run that had a PropertyZoning row when it began
HadRows == {i \in 1..Len(bprops) : PzRows(startPz, bprops[i]) # {}}

\* the run has printed its report
Reported == bpc = "done" /\ blast.what = "report"

\* C27: at the end of a builder run, skipped is the number of processed
\* properties that already had a PropertyZoning row, and the number printed
\* as "Relationships created" is the number of PropertyZoning rows the run
\* created.
C27_CountersDescribeRun ==
    Reported =>
        /\ skipped = Cardinality(HadRows)
        /\ created = Cardinality(pz \ startPz)

\* the part of C27 that holds: skipped counts the properties that had rows
C27_SkippedCount == Reported => skipped = Cardinality(HadRows)

(***************************************************************************)
(* Specification SpecConcurrent: several GET /lookup requests served by    *)
(* one event loop against a store that nobody writes.  The request that    *)
(* runs has its frame in pc, rq, resp, trace and geo; the frames of the    *)
(* others are parked.  lookup_property is a coroutine: the loop takes up   *)
(* another request only when the running one starts, awaits the geocoder's *)
(* HTTP call, or has returned.                                             *)
(***************************************************************************)
MaxRequests == 2       \* requests in flight at the same time

Requests == 1..MaxRequests

\* the frame of the running request: its locals (address, bbl, lat, lon,
\* property_obj, the GeocodingService it constructed) and its response
Frame == [pc |-> pc, rq |-> rq, resp |-> resp, trace |-> trace, geo |-> geo]

NewFrame ==
    [pc |-> "idle",
     rq |-> [endpoint |-> "none", address |-> NoneAddr, bbl |-> NoneStr,
             lat |-> NoneNum, lon |-> NoneNum, fault |-> ""],
     resp |-> NoResp, trace |-> <<>>, geo |-> NoGeo]

FrameOf(i) == IF i = cur THEN Frame ELSE parked[i]

\* variant: the geocoder object is shared by the requests, so the request
\* that is taken up finds the address of the one that ran last
Resumed_shared_geocoder(frame) == [frame EXCEPT !.geo = geo]

\* the frame a request is taken up with: its own, as it was left
Resumed(frame) == frame

\* the event loop leaves the running request and takes up request j
Switch(j) ==
    /\ j \in Requests \ {cur}
    /\ parked' = [i \in Requests \ {j} |-> IF i = cur THEN Frame ELSE parked[i]]
    /\ cur' = j
    /\ pc' = Resumed(parked[j]).pc
    /\ rq' = Resumed(parked[j]).rq
    /\ resp' = Resumed(parked[j]).resp
    /\ trace' = Resumed(parked[j]).trace
    /\ geo' = Resumed(parked[j]).geo
    /\ UNCHANGED <<storeVars, settings, nearby, builderVars, importVars, pureVars>>

\* the geocoding provider answers an address the same way every time: the
\* transport outcome and the response body for the address sent
ReplyOf(address) ==
    CASE address[1] = "z" -> [transport |-> "ok", body |-> 3]
      [] address[1] = "q" -> [transport |-> "ok", body |-> 1]
      [] address[1] = "x" -> [transport |-> "timeout", body |-> 1]
      [] OTHER            -> [transport |-> "ok", body |-> 4]

\* the parameters of the requests drawn: three addresses for the geocoder,
\* one that matches a stored address, a bbl, a point, nothing
ConcurrentInputs ==
    {[address |-> Some(<<a>>), bbl |-> NoneStr, lat |-> NoneNum, lon |-> NoneNum] :
        a \in {"z", "q", "x", "a"}}
    \cup {[address |-> NoneAddr, bbl |-> Some(ParcelBbl(2)), lat |-> NoneNum, lon |-> NoneNum],
          [address |-> NoneAddr, bbl |-> NoneStr, lat |-> Some(1), lon |-> Some(3)],
          [address |-> NoneAddr, bbl |-> NoneStr, lat |-> NoneNum, lon |-> NoneNum]}

InitConcurrent ==
    /\ properties \in Tables(ParcelIds)
    /\ districts = IdTable(MaxDistricts)
    /\ pz = {r \in SamplePz : r.pid \in Range(properties)}
    /\ landmarks = IdTable(MaxLandmarks)
    /\ lmDist = Equidistant([l \in LandmarkIds |-> feet_to_meters(Feet(50 * l))])
    /\ settings = [provider |-> "nyc", api_key |-> ""]
    /\ LookupIdle
    /\ BuilderIdle
    /\ ImportIdle
    /\ PureIdle
    /\ cur = 1
    /\ parked = [i \in Requests \ {1} |-> NewFrame]

NextConcurrent ==
    \/ \E i \in ConcurrentInputs : LookupCall(i.address, i.bbl, i.lat, i.lon, "")
    \/ /\ pc = "geocoding"
       /\ LookupResume(ReplyOf(geo.address).transport, ReplyOf(geo.address).body)
    \/ \E j \in Requests : Switch(j)

SpecConcurrent == InitConcurrent /\ [][NextConcurrent]_vars

\* the responses of the enrichment of property p
FoundResponses(p) ==
    {PropertyResponse(p,
                      IF Len(persisted) = 0 THEN get_zoning_districts(ParcelGeom(p))
                      ELSE persisted,
                      find_nearby_landmarks(p, DEFAULT_DISTANCE_FEET)) :
        persisted \in get_property_zoning_districts(p)}

ResponsesFor(p) == IF p = 0 THEN {NotFoundResponse} ELSE FoundResponses(p)

\* the responses a request with these parameters gets when it is the only one
AloneOutcomes(request) ==
    IF ~AnyInput(request.address, request.bbl, request.lat, request.lon)
    THEN {HTTPException(400, "validation")}
    ELSE IF TruthyStr(request.bbl)
    THEN ResponsesFor(find_property_by_bbl(request.bbl.v))
    ELSE IF TruthyAddr(request.address)
    THEN LET found == find_property_by_address(request.address.v)
             reply == ReplyOf(normalize_address(request.address.v))
             r     == GeocodeResume(GeocodingService, reply.transport,
                                    IF reply.transport = "ok"
                                    THEN BodiesOf(GeocodingService)[reply.body]
                                    ELSE NotJson)
         IN  IF found # 0 THEN ResponsesFor(found)
             ELSE IF GeocodeBegin(GeocodingService) # "await"
             THEN {HTTPException(400, "geocoding")}
             ELSE IF r.exc = "GeocodingError" THEN {HTTPException(400, "geocoding")}
             ELSE IF r.exc # "" THEN {HTTPException(500, "server")}
             ELSE ResponsesFor(find_property_by_coordinates(r.lat, r.lon))
    ELSE ResponsesFor(find_property_by_coordinates(request.lat.v, request.lon.v))

\* every request that has returned has an outcome of its own parameters
OutcomeAsAlone ==
    \A i \in Requests :
        FrameOf(i).pc = "done" => FrameOf(i).resp \in AloneOutcomes(FrameOf(i).rq)

\* a step of one request leaves the frames of the others as they are, and
\* taking up another request changes no frame; the store is never written
Isolation ==
    /\ \A i \in Requests : (cur' # cur \/ i # cur) => FrameOf(i)' = FrameOf(i)
    /\ storeVars' = storeVars

\* C28: for every interleaving of two or more lookup_property requests on an
\* unchanging store, a suspension at the geocoder call included, each
\* request returns an outcome it would return alone, and no step of a
\* request reads or writes the frame of another request.
C28_NoCoordination == []OutcomeAsAlone /\ [][Isolation]_vars

\* request 2 has gone through the geocoder and found a property while
\* request 1 is still suspended in its own geocoder call
C28_Witness ==
    /\ cur = 2
    /\ pc = "done" /\ geo.state = "returned" /\ resp.kind = "found"
    /\ parked[1].pc = "geocoding"
    /\ parked[1].geo.address # geo.address

\* request 1, taken up again after request 2 returned, ends in its own way
C28_WitnessBothDone ==
    /\ cur = 1
    /\ pc = "done" /\ geo.state = "raised"
    /\ parked[2].pc = "done" /\ parked[2].geo.state = "returned"
    /\ parked[2].resp.kind = "found"

(***************************************************************************)
(* Properties of the batches, the per-record policy and the counters       *)
(* (specification SpecImport).                                             *)
(***************************************************************************)
\* a non-dry call of import_file has begun
Importing == ipc \in {"running", "aborted", "done"} /\ ~imp.dry_run

Counted(st) == st.inserted + st.updated + st.skipped + st.errors

\* C29: in a non-dry run every record is counted in exactly one of inserted,
\* updated, skipped and errors: at every point of the run the four counters
\* add up to the number of records processed so far, and when import_file
\* returns they add up to total, the number of records of the file.
C29_CountersAddUp ==
    Importing =>
        /\ stats.total = Len(imp.file)
        /\ Counted(stats) = ipos - 1
        /\ ipc = "done" => Counted(stats) = stats.total

\* a returned run that counted one failed record and one insert
C29_Witness ==
    /\ Importing /\ ipc = "done"
    /\ stats.errors = 1 /\ stats.inserted = 1
    /\ stats.total = 2

\* the records of the call whose batch has been committed
CommittedUpTo ==
    IF ipc = "aborted" THEN ((ipos - 2) \div imp.batch_size) * imp.batch_size
    ELSE IF ipos > Len(imp.file) THEN Len(imp.file)
    ELSE ((ipos - 1) \div imp.batch_size) * imp.batch_size

\* the fields of the row with this key were last written by this call
WrittenByCall(kind, key, from, to) ==
    \E f \in fields : /\ f.kind = kind /\ f.key = key /\ f.run = iruns
                       /\ from <= f.pos /\ f.pos <= to

\* what the committed batches wrote is stored, nothing of a later batch is
PartialProgress ==
    Importing =>
        /\ \A i \in 1..CommittedUpTo :
              (imp.file[i].key # 0 /\ imp.file[i].geometry = "ok") =>
                 /\ existing(imp.kind, imp.file[i].key) # 0
                 /\ imp.update_existing =>
                       WrittenByCall(imp.kind, imp.file[i].key, i, CommittedUpTo)
        /\ \A f \in fields :
              (f.kind = imp.kind /\ f.run = iruns) => f.pos <= CommittedUpTo

\* a record that does not close its batch with a successful commit leaves
\* the tables as they are
OneCommitPerBatch ==
    (ipc = "running" /\ ipos' = ipos + 1
        /\ (~BatchEnd(ipos, Len(imp.file), imp.batch_size) \/ ipc' = "aborted")) =>
        /\ <<properties, districts, landmarks>>' = <<properties, districts, landmarks>>
        /\ fields' = fields

\* C24: import_file commits once per batch, and partial progress survives a
\* later failure: when the call aborts in batch k + 1, every entity inserted
\* or updated in batches 1..k is stored and no entity of batch k + 1 is.
C24_PartialProgressSurvives == []PartialProgress /\ [][OneCommitPerBatch]_vars

\* the first batch inserted a landmark, zone or parcel; the second batch,
\* an update the table refuses, made the call abort
C24_Witness ==
    /\ ipc = "aborted"
    /\ CommittedUpTo = 1
    /\ imp.file[1].key = 2
    /\ existing(imp.kind, 2) # 0
    /\ WrittenByCall(imp.kind, 2, 1, 1)
    /\ stats.inserted = 1 /\ stats.updated = 1

KeyRows(table, kind, key) ==
    {i \in DOMAIN table : NaturalKey(kind, table[i]) = NaturalKey(kind, key)}

\* the step of one record with a natural key follows the policy
RecordPolicy ==
    (ipc = "running" /\ ipos' = ipos + 1 /\ imp.file[ipos].key # 0) =>
        LET kind   == imp.kind
            rec    == imp.file[ipos]
            stored == existing(kind, rec.key) # 0
            closes == BatchEnd(ipos, Len(imp.file), imp.batch_size)
            last   == ipending'[Len(ipending')]
        IN  /\ (stored /\ ~imp.update_existing) =>
                  /\ stats' = [stats EXCEPT !.skipped = @ + 1]
                  /\ ipending' \in {ipending, <<>>}
                  /\ {f \in fields' : f.kind = kind /\ f.key = rec.key}
                        = {f \in fields : f.kind = kind /\ f.key = rec.key}
            /\ (stored /\ imp.update_existing /\ rec.geometry # "none") =>
                  /\ stats' = [stats EXCEPT !.updated = @ + 1]
                  /\ ~closes => (last.key = rec.key /\ last.op = "updated"
                                    /\ last.pos = ipos)
            /\ (~stored /\ rec.geometry # "none") =>
                  /\ stats' = [stats EXCEPT !.inserted = @ + 1]
                  /\ ~closes => (last.key = rec.key /\ last.op = "inserted"
                                    /\ last.pos = ipos)
            /\ (closes /\ ipc' = "running") =>
                  \A e \in Range(PendingWith(ipending, rec, ipos,
                                     ProcessRecord(kind, rec, imp.update_existing))) :
                     LET n == Cardinality(KeyRows(TableOf(kind), kind, e.key))
                         m == Cardinality(KeyRows(TableOf(kind)', kind, e.key))
                     IN  /\ \E f \in fields' :
                               /\ f.kind = kind /\ f.key = e.key /\ f.run = iruns
                               /\ f.pos >= e.pos
                         /\ e.op = "updated" => (m = n /\ n >= 1)
                         /\ e.op = "inserted" => (n = 0 /\ m >= 1)

C25_WitnessSkipped ==
    /\ iruns = 2 /\ ipc = "done" /\ ~imp.update_existing /\ ~imp.dry_run
    /\ stats.skipped >= 1
    /\ \E f \in fields : f.kind = imp.kind /\ f.key = 2 /\ f.run = 1

\* the natural keys a record may carry
RecordKeys == {r.key : r \in Records} \ {0}

\* the number of rows per natural key
KeyCounts(table, kind) ==
    [k \in RecordKeys |-> Cardinality(KeyRows(table, kind, k))]

\* import_file with batch_size = 1 on a table with cnt[k] rows of key k: the
\* records are handled one after the other, each seeing its predecessors
RECURSIVE OneByOne(_, _, _, _)
OneByOne(file, update_existing, cnt, st) ==
    IF file = <<>> THEN [outcome |-> "returned", stats |-> st, counts |-> cnt]
    ELSE LET rec == Head(file)
             op  == IF rec.key = 0 THEN "skipped"
                    ELSE IF cnt[rec.key] > 0 /\ ~update_existing THEN "skipped"
                    ELSE IF rec.geometry = "none" THEN "errors"
                    ELSE IF cnt[rec.key] > 0 THEN "updated"
                    ELSE "inserted"
             st2 == [st EXCEPT ![op] = @ + 1]
         IN  IF op \in {"inserted", "updated"} /\ rec.geometry = "rejected"
             THEN [outcome |-> "raised", stats |-> st2, counts |-> cnt]
             ELSE OneByOne(Tail(file), update_existing,
                           IF op = "inserted" THEN [cnt EXCEPT ![rec.key] = @ + 1]
                           ELSE cnt,
                           st2)

\* the first call of the behaviour is over; the store it began with holds
\* row 1 of the table
FirstCallOver == iruns = 1 /\ ipc \in {"done", "aborted"} /\ ~imp.dry_run

\* C30: the result of import_file does not depend on batch_size: the stored
\* entities and the summary are those of the record-by-record run, and the
\* store holds at most one entity per natural key.
C30_BatchSizeIndependent ==
    FirstCallOver =>
        LET ref == OneByOne(imp.file, imp.update_existing,
                            KeyCounts(IdTable(1), imp.kind), NoStats(Len(imp.file)))
        IN  /\ (IF ipc = "done" THEN "returned" ELSE "raised") = ref.outcome
            /\ stats = ref.stats
            /\ KeyCounts(TableOf(imp.kind), imp.kind) = ref.counts
            /\ \A k \in RecordKeys : KeyCounts(TableOf(imp.kind), imp.kind)[k] <= 1

\* with one record per batch the call is the record-by-record run
C30_OneRecordPerBatch == (FirstCallOver /\ imp.batch_size = 1) => C30_BatchSizeIndependent

====
